---- MODULE Spec2Model ----
(***************************************************************************)
(* Model of gluey's DSL evaluation engine: package eval (the evaluation    *)
(* context and the four-phase RunDSL pipeline), the builder functions of   *)
(* package dsl that run inside configuration closures, and the expression  *)
(* nodes of package expr with their Prepare and Validate methods.          *)
(*                                                                         *)
(* A configuration closure is modelled as the sequence of builder calls it *)
(* makes.  Go's call stack is the variable stack: one frame per running    *)
(* closure (pushed by Execute) and one per builder call that is waiting    *)
(* for a closure it executes (Page, Type).  RunDSL's own position is pc.   *)
(***************************************************************************)
EXTENDS Integers, Sequences, FiniteSets, TLC

VARIABLES
    root,       \* eval.Context.root: node id, Nil when unset
    exprRoot,   \* expr.Root: node id, Nil when unset
    current,    \* eval.Context.current: node id, Nil when unset
    Errors,     \* eval.Context.Errors: an error value (NilErr when nil)
    heap,       \* the expression nodes allocated so far; a node's id is its index
    stack,      \* call stack below RunDSL: closure frames and waiting builder calls
    pc,         \* position of RunDSL ("idle" when it is not running)
    walk,       \* position of the running WalkSets: [set, list, i]
    result,     \* value returned by the last RunDSL (NoResult when none)
    log,        \* history: what the current RunDSL has called so far
    reported,   \* history: non-nil errors given to ReportError since the last Reset
    fresh,      \* history: "reset" after Context.Reset, "registered" once a root
                \* was registered right after it, "running" for the RunDSL that follows
    stale,      \* history: whether the last Context.Reset discarded recorded errors
    mounted,    \* the routes of the router RouterGenerator.Generate wrote last
    files,      \* the output directory of the generators: path -> content
    generated,  \* history: what the calls of ExampleGenerator.Generate returned
                \* since the user last changed the output directory
    emitted,    \* the struct declarations of the types file TypesGenerator.Generate
                \* wrote last
    validatorErrors,  \* runtime.Validator.errors of the validator in use
    checked     \* history: the checks called on the validator since NewValidator

\* the state of packages eval, expr and dsl
evalvars == <<root, exprRoot, current, Errors, heap, stack, pc, walk, result, log,
              reported, fresh, stale>>
\* the state of packages codegen and runtime
genvars == <<mounted, files, generated, emitted, validatorErrors, checked>>

vars == <<root, exprRoot, current, Errors, heap, stack, pc, walk, result, log,
          reported, fresh, stale, mounted, files, generated, emitted,
          validatorErrors, checked>>

-----------------------------------------------------------------------------
(* Bounds *)

\* longest root closure (number of builder calls in the closure given to WebApp)
MaxStmts == 2
\* most errors recorded outside RunDSL between two Resets; RunDSL is called while
\* fewer are recorded
MaxReports == 2
\* longest closure of a design (builder calls in the closure given to WebApp)
MaxDesign == 1
\* most calls of ExampleGenerator.Generate between two changes the user makes
\* to the output directory
MaxRuns == 2

-----------------------------------------------------------------------------
(* Values *)

Nil == 0

\* error values: nil, a plain error, or eval.multiError wrapping a list of errors
NilErr == [kind |-> "nil", msg |-> "", errors |-> <<>>]
Err(m) == [kind |-> "err", msg |-> m, errors |-> <<>>]
multiError(errs) == [kind |-> "multi", msg |-> "", errors |-> errs]
NoResult == [kind |-> "none", msg |-> "", errors |-> <<>>]

\* a builder call: op(name, strs..., items..., fn); fn is the closure argument,
\* hasFn tells a nil closure from an empty one
Stmt(op, name, strs, items, hasFn, fn) ==
    [op |-> op, name |-> name, strs |-> strs, items |-> items,
     hasFn |-> hasFn, fn |-> fn]

\* the arguments of Page: a path string or a closure
PathArg(p) == [k |-> "path", path |-> p, fn |-> <<>>]
FnArg(body) == [k |-> "fn", path |-> "", fn |-> body]

RouteExpr(method, path) == [method |-> method, path |-> path]
AttributeExpr(name, type) == [name |-> name, type |-> type]

\* Resource("posts")
SResPlain == Stmt("Resource", "posts", <<>>, <<>>, FALSE, <<>>)
\* Resource("users", func() { Actions("index", "show");
\*                            Resource("comments", func() { Actions("index") }) })
SResNested ==
    Stmt("Resource", "users", <<>>, <<>>, TRUE,
         << Stmt("Actions", "", <<"index", "show">>, <<>>, FALSE, <<>>),
            Stmt("Resource", "comments", <<>>, <<>>, TRUE,
                 << Stmt("Actions", "", <<"index">>, <<>>, FALSE, <<>>) >>) >>)
\* Resource("tags", func() { Actions("bogus") })
SResBadAction ==
    Stmt("Resource", "tags", <<>>, <<>>, TRUE,
         << Stmt("Actions", "", <<"bogus">>, <<>>, FALSE, <<>>) >>)
\* Resource("admin", func() { Route("GET", "/admin") })
SResBadCall ==
    Stmt("Resource", "admin", <<>>, <<>>, TRUE,
         << Stmt("Route", "", <<"GET", "/admin">>, <<>>, FALSE, <<>>) >>)
\* Page("home", "/")
SPagePath == Stmt("Page", "home", <<>>, << PathArg("/") >>, FALSE, <<>>)
\* Page("contact", func() { Route("GET", "/contact"); Route("POST", "/contact") })
SPageFn ==
    Stmt("Page", "contact", <<>>,
         << FnArg(<< Stmt("Route", "", <<"GET", "/contact">>, <<>>, FALSE, <<>>),
                     Stmt("Route", "", <<"POST", "/contact">>, <<>>, FALSE, <<>>) >>) >>,
         FALSE, <<>>)
\* Type("LoginForm", func() { Attribute("email", String);
\*                            Attribute("password", String);
\*                            Attribute("remember_me", Boolean) })
STypeFn ==
    Stmt("Type", "LoginForm", <<>>, <<>>, TRUE,
         << Stmt("Attribute", "email", <<"string">>, <<>>, FALSE, <<>>),
            Stmt("Attribute", "password", <<"string">>, <<>>, FALSE, <<>>),
            Stmt("Attribute", "remember_me", <<"boolean">>, <<>>, FALSE, <<>>) >>)
\* Route("GET", "/") written directly in the closure of WebApp
SRouteAtRoot == Stmt("Route", "", <<"GET", "/">>, <<>>, FALSE, <<>>)

\* the builder calls a root closure is made of
ValidStmts == {SResPlain, SResNested, SPagePath, SPageFn, STypeFn}
Menu == ValidStmts \cup {SResBadAction, SResBadCall, SRouteAtRoot}

BodiesUpTo(n) == UNION {[1..k -> Menu] : k \in 0..n}
RootBodies == BodiesUpTo(MaxStmts)

\* a closure is valid when every call in it is one of the well-formed ones
ValidBody(body) == \A i \in 1..Len(body) : body[i] \in ValidStmts

\* statements of the designs that use the resource and page builders
Call(op, name, strs) == Stmt(op, name, strs, <<>>, FALSE, <<>>)
Block(op, name, fn) == Stmt(op, name, <<>>, <<>>, TRUE, fn)

\* Resource("posts", func() { Index(func() { Paginate(20); Searchable("title");
\*                                           Filterable("status") }) })
DResIndex ==
    Block("Resource", "posts",
          << Block("Index", "",
                   << Stmt("Paginate", "", <<>>, <<20>>, FALSE, <<>>),
                      Call("Searchable", "", <<"title">>),
                      Call("Filterable", "", <<"status">>) >>) >>)
\* Resource("posts", func() { Create(func() { UseForm("PostForm") });
\*                            Update(func() { UseForm("EditPostForm") }) })
DResForms ==
    Block("Resource", "posts",
          << Block("Create", "", << Call("UseForm", "PostForm", <<>>) >>),
             Block("Update", "", << Call("UseForm", "EditPostForm", <<>>) >>) >>)
\* Resource("articles", func() { Create(func() { UseForm("ArticleForm") }) })
DResCreate ==
    Block("Resource", "articles",
          << Block("Create", "", << Call("UseForm", "ArticleForm", <<>>) >>) >>)
\* Resource("comments", func() { Update(func() { UseForm("CommentForm") }) })
DResUpdate ==
    Block("Resource", "comments",
          << Block("Update", "", << Call("UseForm", "CommentForm", <<>>) >>) >>)
\* Resource("users", func() { UseForm("UserForm"); Paginate(10);
\*                            Searchable("name"); Filterable("role") })
DResLegacy ==
    Block("Resource", "users",
          << Call("UseForm", "UserForm", <<>>),
             Stmt("Paginate", "", <<>>, <<10>>, FALSE, <<>>),
             Call("Searchable", "", <<"name">>),
             Call("Filterable", "", <<"role">>) >>)
\* Resource("session", func() { Singular(); Actions("new", "create", "destroy") })
DResSingular ==
    Block("Resource", "session",
          << Call("Singular", "", <<>>),
             Call("Actions", "", <<"new", "create", "destroy">>) >>)
\* Resource("Posts")
DResUpper == Call("Resource", "Posts", <<>>)
\* Resource("")
DResEmpty == Call("Resource", "", <<>>)
\* Resource("admin", func() { Page("x", "/x"); Type("T", func() {});
\*                            Attribute("a", String); Route("GET", "/admin") })
DResWrong ==
    Block("Resource", "admin",
          << Stmt("Page", "x", <<>>, << PathArg("/x") >>, FALSE, <<>>),
             Block("Type", "T", <<>>),
             Call("Attribute", "a", <<"string">>),
             Call("Route", "", <<"GET", "/admin">>) >>)
\* Page("about")
DPageBare == Call("Page", "about", <<>>)
\* Page("help", func() { Route("FETCH", "/help"); Route("GET", "") })
DPageBad ==
    Stmt("Page", "help", <<>>,
         << FnArg(<< Call("Route", "", <<"FETCH", "/help">>),
                     Call("Route", "", <<"GET", "">>) >>) >>, FALSE, <<>>)
\* Page("", "/")
DPageNoName == Stmt("Page", "", <<>>, << PathArg("/") >>, FALSE, <<>>)
\* Page("faq", func() { Resource("answers"); Actions("index"); Singular();
\*                      Index(nil); UseForm("FaqForm"); Paginate(5);
\*                      Searchable("q"); Filterable("topic") })
DPageWrong ==
    Stmt("Page", "faq", <<>>,
         << FnArg(<< Call("Resource", "answers", <<>>),
                     Call("Actions", "", <<"index">>),
                     Call("Singular", "", <<>>),
                     Call("Index", "", <<>>),
                     Call("UseForm", "FaqForm", <<>>),
                     Stmt("Paginate", "", <<>>, <<5>>, FALSE, <<>>),
                     Call("Searchable", "", <<"q">>),
                     Call("Filterable", "", <<"topic">>) >>) >>, FALSE, <<>>)

\* Type("", func() { Attribute("email", String) })
VTypeNoName ==
    Block("Type", "", << Call("Attribute", "email", <<"string">>) >>)
\* Type("SignupForm", func() { Attribute("", String); Attribute("", Boolean);
\*                             Attribute("email") })
VTypeBadAttrs ==
    Block("Type", "SignupForm",
          << Call("Attribute", "", <<"string">>),
             Call("Attribute", "", <<"boolean">>),
             Call("Attribute", "email", <<>>) >>)
\* Resource("posts", func() { Form("PostForm", func() { Attribute("title");
\*                                                      Attribute("", String) }) })
VResFormBad ==
    Block("Resource", "posts",
          << Block("Form", "PostForm",
                   << Call("Attribute", "title", <<>>),
                      Call("Attribute", "", <<"string">>) >>) >>)
\* Resource("users", func() { Form("UserForm", func() { Attribute("name", String) });
\*                            Form("EmptyForm", nil) })
VResFormGood ==
    Block("Resource", "users",
          << Block("Form", "UserForm", << Call("Attribute", "name", <<"string">>) >>),
             Call("Form", "EmptyForm", <<>>) >>)
\* Page("about", func() { Form("AboutForm", nil) })
VPageForm ==
    Stmt("Page", "about", <<>>,
         << FnArg(<< Call("Form", "AboutForm", <<>>) >>) >>, FALSE, <<>>)

\* Type("UserForm", func() { Attribute("name", String) })
VTypeUser ==
    Block("Type", "UserForm", << Call("Attribute", "name", <<"string">>) >>)
\* Resource("users", func() { UseForm("UserForm") })
VResUseForm ==
    Block("Resource", "users", << Call("UseForm", "UserForm", <<>>) >>)

\* the closures of the designs whose validation is examined
ValidationDesigns ==
    { << SResBadAction, SResPlain, DPageNoName, VTypeNoName >>,
      << VTypeBadAttrs >>,
      << VResFormBad >>,
      << STypeFn, VResFormGood >>,
      << VTypeUser, VResUseForm >>,
      << VResUseForm >>,
      << DPageNoName, SPagePath >>,
      << VPageForm >> }
\* the errors the Validate methods of the children of a tree return
TreeChildren ==
    { << NilErr >>,
      << Err("validation failed"), NilErr >>,
      << Err("validation failed"), NilErr, Err("child 3 is invalid") >> }

\* the builder calls the closure of a design is made of
DesignMenu ==
    {DResIndex, DResForms, DResCreate, DResUpdate, DResLegacy, DResSingular,
     DResUpper, DResEmpty, DResWrong, SResNested, SResBadAction,
     DPageBare, DPageBad, DPageNoName, DPageWrong}
Designs == UNION {[1..k -> DesignMenu] : k \in 0..MaxDesign}

AppNames == {"testapp", ""}
TopErrors == {Err("error 1"), Err("error 2")}
TestErrors == {NilErr, Err("validation failed")}
\* closures of a TestExpression root: func() {} and one that calls a builder
TestBodies == {<<>>, <<SRouteAtRoot>>}

-----------------------------------------------------------------------------
(* Nodes *)

Node(kind, name, hasDsl, dsl) ==
    [kind |-> kind, name |-> name, hasDsl |-> hasDsl, dsl |-> dsl,
     parent |-> Nil, actions |-> <<>>, routes |-> <<>>, attrs |-> <<>>,
     resources |-> <<>>, pages |-> <<>>, forms |-> <<>>,
     assetsPath |-> "", validErr |-> NilErr,
     prepared |-> FALSE, validated |-> FALSE, finalized |-> FALSE,
     declared |-> <<>>,
     singular |-> FALSE, pagination |-> <<>>, searchable |-> <<>>,
     filterable |-> <<>>, customForms |-> <<>>, configs |-> <<>>,
     formName |-> "", children |-> <<>>]

\* expr.AppExpr
AppExpr(name, hasDsl, dsl) == Node("app", name, hasDsl, dsl)
\* expr.ResourceExpr
ResourceExpr(name, hasDsl, dsl, parent) ==
    [Node("resource", name, hasDsl, dsl) EXCEPT !.parent = parent]
\* expr.PageExpr; declared is history: the routes the Page call declares
PageExpr(name, declared) == [Node("page", name, FALSE, <<>>) EXCEPT !.declared = declared]
\* expr.FormExpr
FormExpr(name, hasDsl, dsl) == Node("form", name, hasDsl, dsl)
\* expr.ActionConfig for the action of a resource
ActionConfig(action) == Node("config", action, FALSE, <<>>)
\* eval_test.TestExpression
TestExpression(name, hasDsl, dsl, validErr) ==
    [Node("test", name, hasDsl, dsl) EXCEPT !.validErr = validErr]

\* a Root written by a user of package eval: it implements Preparer, Validator
\* and Finalizer as TestExpression does, and its WalkSets walks its children
TreeExpression(name, children) ==
    [Node("tree", name, FALSE, <<>>) EXCEPT !.children = children]

KindOf(id) == IF id = Nil THEN "nil" ELSE heap[id].kind

\* Go's %T of an expression
TypeName(id) ==
    CASE KindOf(id) = "nil" -> "<nil>"
      [] KindOf(id) = "app" -> "*expr.AppExpr"
      [] KindOf(id) = "resource" -> "*expr.ResourceExpr"
      [] KindOf(id) = "page" -> "*expr.PageExpr"
      [] KindOf(id) = "form" -> "*expr.FormExpr"
      [] KindOf(id) = "config" -> "*expr.ActionConfig"
      [] KindOf(id) = "test" -> "*eval_test.TestExpression"
      [] KindOf(id) = "tree" -> "*eval_test.TreeExpression"

\* the optional capability interfaces a node kind implements
IsSource(id) == KindOf(id) \in {"app", "resource", "page", "form", "test"}
IsPreparer(id) ==
    KindOf(id) \in {"app", "resource", "page", "form", "config", "test", "tree"}
IsValidator(id) ==
    KindOf(id) \in {"app", "resource", "page", "form", "config", "test", "tree"}
IsFinalizer(id) == KindOf(id) \in {"test", "tree"}

-----------------------------------------------------------------------------
(* Initial state: package variables after program start *)

NoWalk == [set |-> 0, list |-> <<>>, i |-> 0]

Init ==
    /\ root = Nil
    /\ exprRoot = Nil
    /\ current = Nil
    /\ Errors = NilErr
    /\ heap = <<>>
    /\ stack = <<>>
    /\ pc = "idle"
    /\ walk = NoWalk
    /\ result = NoResult
    /\ log = <<>>
    /\ reported = <<>>
    /\ fresh = "none"
    /\ stale = FALSE
    /\ mounted = <<>>
    /\ files = <<>>
    /\ generated = <<>>
    /\ emitted = <<>>
    /\ validatorErrors = <<>>
    /\ checked = <<>>

-----------------------------------------------------------------------------
(* Error accumulation (eval.Context) *)

\* recordError with a slip: a later error replaces the recorded ones
recordErrorOverwrite(errs, err) == IF err = NilErr THEN errs ELSE err

\* evalContext.recordError: the new value of Context.Errors
recordError(errs, err) ==
    IF err = NilErr THEN errs
    ELSE IF errs = NilErr THEN err
    ELSE multiError(<<errs, err>>)

\* eval.ReportError
ReportError(err) ==
    IF err = NilErr
    THEN UNCHANGED <<Errors, reported>>
    ELSE /\ Errors' = recordError(Errors, err)
         /\ reported' = Append(reported, err)

\* the error eval.IncompatibleDSL reports
IncompatibleErr ==
    Err("incompatible DSL function called in " \o TypeName(current) \o " context")

\* the errors an error value is made of, in the order multiError.Error prints
\* their messages
RECURSIVE Leaves(_)
Leaves(e) ==
    IF e.kind # "multi" THEN <<e>>
    ELSE IF Len(e.errors) = 0 THEN <<>>
    ELSE Leaves(Head(e.errors)) \o Leaves([e EXCEPT !.errors = Tail(e.errors)])

Flatten(e) == IF e = NilErr THEN <<>> ELSE Leaves(e)

-----------------------------------------------------------------------------
(* Calls made by the program outside RunDSL.  The program registers a root   *)
(* on clean package state and evaluates it once: after RunDSL has returned  *)
(* the next call into package eval is Context.Reset, as in the repository's *)
(* tests.                                                                   *)

Idle == pc = "idle" /\ stack = <<>>
Returned == pc = "done" /\ stack = <<>>

\* WebApp with a slip: the closure is executed at once
WebAppEager(name, hasFn, fn) ==
    /\ pc = "idle" /\ stack = <<>>
    /\ root = Nil /\ exprRoot = Nil
    /\ heap' = << AppExpr(name, hasFn, fn) >>
    /\ exprRoot' = 1
    /\ root' = 1
    /\ stack' = << [kind |-> "dsl", node |-> 1, body |-> fn, ip |-> 1, old |-> current,
                    app |-> Nil, rest |-> <<>>] >>
    /\ current' = 1
    /\ log' = Append(log, [ph |-> 0, ev |-> "exec", node |-> 1, err |-> NilErr])
    /\ fresh' = IF fresh = "reset" THEN "registered" ELSE "none"
    /\ stale' = (fresh = "reset" /\ stale)
    /\ UNCHANGED <<Errors, reported, pc, walk, result>>
    /\ UNCHANGED genvars

\* dsl.WebApp(name, fn)
WebApp(name, hasFn, fn) ==
    /\ Idle
    /\ root = Nil /\ exprRoot = Nil
    /\ heap' = << AppExpr(name, hasFn, fn) >>
    /\ exprRoot' = 1
    /\ root' = 1
    /\ fresh' = IF fresh = "reset" THEN "registered" ELSE "none"
    /\ stale' = (fresh = "reset" /\ stale)
    /\ UNCHANGED <<current, Errors, reported, stack, pc, walk, result, log>>
    /\ UNCHANGED genvars

\* eval.SetRoot(&TestExpression{...}), as package eval's tests do
SetRoot(hasFn, fn, validErr) ==
    /\ Idle
    /\ root = Nil /\ exprRoot = Nil
    /\ heap' = << TestExpression("test", hasFn, fn, validErr) >>
    /\ root' = 1
    /\ fresh' = IF fresh = "reset" THEN "registered" ELSE "none"
    /\ stale' = (fresh = "reset" /\ stale)
    /\ UNCHANGED <<exprRoot, current, Errors, reported, stack, pc, walk, result, log>>
    /\ UNCHANGED genvars

\* eval.SetRoot(tree) for a Root with children, each a TestExpression whose
\* Validate returns the error given for it
SetRootTree(validErrs) ==
    /\ Idle
    /\ root = Nil /\ exprRoot = Nil
    /\ heap' = << TreeExpression("tree", [i \in 1..Len(validErrs) |-> i + 1]) >>
                  \o [i \in 1..Len(validErrs) |->
                         TestExpression("child", FALSE, <<>>, validErrs[i])]
    /\ root' = 1
    /\ fresh' = IF fresh = "reset" THEN "registered" ELSE "none"
    /\ stale' = (fresh = "reset" /\ stale)
    /\ UNCHANGED <<exprRoot, current, Errors, reported, stack, pc, walk, result, log>>
    /\ UNCHANGED genvars

\* Reset with a slip: Errors is not cleared
ResetKeepsErrors ==
    /\ Idle \/ Returned
    /\ root' = Nil
    /\ current' = Nil
    /\ reported' = <<>>
    /\ stale' = (Errors # NilErr)
    /\ fresh' = "reset"
    /\ heap' = IF exprRoot = Nil THEN <<>> ELSE heap
    /\ pc' = "idle" /\ result' = NoResult /\ log' = <<>>
    /\ UNCHANGED <<Errors, exprRoot, stack, walk>>
    /\ UNCHANGED genvars

\* evalContext.Reset.  Nodes that become unreachable are dropped from the heap.
Reset ==
    /\ Idle \/ Returned
    /\ root' = Nil
    /\ current' = Nil
    /\ Errors' = NilErr
    /\ reported' = <<>>
    /\ stale' = (Errors # NilErr)
    /\ fresh' = "reset"
    /\ heap' = IF exprRoot = Nil THEN <<>> ELSE heap
    /\ pc' = "idle" /\ result' = NoResult /\ log' = <<>>
    /\ UNCHANGED <<exprRoot, stack, walk>>
    /\ UNCHANGED genvars

\* expr.Reset
ExprReset ==
    /\ Idle \/ Returned
    /\ exprRoot # Nil
    /\ exprRoot' = Nil
    /\ heap' = IF root = Nil THEN <<>> ELSE heap
    /\ UNCHANGED <<root, current, Errors, reported, stack, pc, walk, result, log,
                   fresh, stale>>
    /\ UNCHANGED genvars

\* eval.ReportError(err) called directly by the program
ReportErrorTop(err) ==
    /\ Idle
    /\ Len(reported) < MaxReports
    /\ ReportError(err)
    /\ fresh' = IF err = NilErr THEN fresh ELSE "none"
    /\ stale' = IF err = NilErr THEN stale ELSE FALSE
    /\ UNCHANGED <<root, exprRoot, current, heap, stack, pc, walk, result, log>>
    /\ UNCHANGED genvars

-----------------------------------------------------------------------------
(* The call stack *)

\* a closure frame (kind "dsl": Execute(body, node) is running, old is the
\* current expression it restores on return, ip the next call of the closure)
\* or a builder call waiting for the closure it executes (kind "Page", "Type":
\* node is the expression it is building, app the app it adds it to, rest the
\* arguments it has not looked at yet)
Frame(kind, node, body, ip, old, app, rest) ==
    [kind |-> kind, node |-> node, body |-> body, ip |-> ip, old |-> old,
     app |-> app, rest |-> rest]

Top == stack[Len(stack)]
Pop(stk) == SubSeq(stk, 1, Len(stk) - 1)

\* the closure on top of the stack is about to call builder op
Running(op) ==
    /\ pc \notin {"idle", "done"}
    /\ stack # <<>>
    /\ Top.kind = "dsl"
    /\ Top.ip <= Len(Top.body)
    /\ Top.body[Top.ip].op = op

CurStmt == Top.body[Top.ip]

\* the builder call on top of stk has returned: its closure goes on
Advance(stk) == [stk EXCEPT ![Len(stk)].ip = @ + 1]

\* the phase RunDSL is in
Phase ==
    CASE pc \in {"p1_root", "p1_walk", "p1_check"} -> 1
      [] pc \in {"p2_root", "p2_walk"} -> 2
      [] pc \in {"p3_root", "p3_walk"} -> 3
      [] pc \in {"p4_root", "p4_walk", "p4_ret"} -> 4
      [] OTHER -> 0

\* a history entry: in phase ph, ev happened to node (with error err)
Ev(ev, node, err) == [ph |-> Phase, ev |-> ev, node |-> node, err |-> err]

\* eval.Execute(body, node), up to the call of the closure: current is saved in
\* the frame and set to node
ExecuteCall(stk, node, body) ==
    /\ stack' = Append(stk, Frame("dsl", node, body, 1, current, Nil, <<>>))
    /\ current' = node
    /\ log' = Append(log, Ev("exec", node, NilErr))

\* Execute with a slip: the saved current expression is not restored
ExecuteReturnNoRestore ==
    /\ pc \notin {"idle", "done"}
    /\ stack # <<>>
    /\ Top.kind = "dsl"
    /\ Top.ip > Len(Top.body)
    /\ stack' = Pop(stack)
    /\ UNCHANGED <<root, exprRoot, current, Errors, heap, pc, walk, result, log,
                   reported, fresh, stale>>
    /\ UNCHANGED genvars

\* eval.Execute, from the return of the closure: the deferred function restores
\* the saved current expression
ExecuteReturn ==
    /\ pc \notin {"idle", "done"}
    /\ stack # <<>>
    /\ Top.kind = "dsl"
    /\ Top.ip > Len(Top.body)
    /\ current' = Top.old
    /\ stack' = Pop(stack)
    /\ UNCHANGED <<root, exprRoot, Errors, heap, pc, walk, result, log, reported,
                   fresh, stale>>
    /\ UNCHANGED genvars

\* eval.IncompatibleDSL
IncompatibleDSL ==
    /\ ReportError(IncompatibleErr)
    /\ log' = Append(log, Ev("incompat", current, IncompatibleErr))

-----------------------------------------------------------------------------
(* Builder functions of package dsl, called from a running closure *)

\* Resource with a slip: a nested resource does not get its Parent
ResourceCallNoParent(s) ==
    LET id == Len(heap) + 1
    IN  IF KindOf(current) = "app"
        THEN /\ heap' = [Append(heap, ResourceExpr(s.name, s.hasFn, s.fn, Nil))
                            EXCEPT ![current].resources = Append(@, id)]
             /\ UNCHANGED <<Errors, reported, log>>
        ELSE IF KindOf(current) = "resource"
        THEN /\ heap' = IF exprRoot # Nil
                        THEN [Append(heap, ResourceExpr(s.name, s.hasFn, s.fn, Nil))
                                 EXCEPT ![exprRoot].resources = Append(@, id)]
                        ELSE heap
             /\ UNCHANGED <<Errors, reported, log>>
        ELSE /\ IncompatibleDSL
             /\ UNCHANGED heap

\* dsl.Resource(name, fn...), the call s: what it does to the tree and to the
\* recorded errors
ResourceCall(s) ==
    LET id == Len(heap) + 1
    IN  IF KindOf(current) = "app"
        THEN /\ heap' = [Append(heap, ResourceExpr(s.name, s.hasFn, s.fn, Nil))
                            EXCEPT ![current].resources = Append(@, id)]
             /\ UNCHANGED <<Errors, reported, log>>
        ELSE IF KindOf(current) = "resource"
        THEN \* nested: added to expr.Root, if there is one
             /\ heap' = IF exprRoot # Nil
                        THEN [Append(heap, ResourceExpr(s.name, s.hasFn, s.fn, current))
                                 EXCEPT ![exprRoot].resources = Append(@, id)]
                        ELSE heap
             /\ UNCHANGED <<Errors, reported, log>>
        ELSE /\ IncompatibleDSL
             /\ UNCHANGED heap

\* dsl.Resource called from a running closure
Resource ==
    /\ Running("Resource")
    /\ ResourceCall(CurStmt)
    /\ stack' = Advance(stack)
    /\ UNCHANGED <<root, exprRoot, current, pc, walk, result, fresh, stale>>
    /\ UNCHANGED genvars

\* dsl.Resource("posts") called by the program outside RunDSL
ResourceTop ==
    /\ Idle
    /\ Len(reported) < MaxReports
    /\ ResourceCall(SResPlain)
    /\ fresh' = "none"
    /\ stale' = FALSE
    /\ UNCHANGED <<root, exprRoot, current, stack, pc, walk, result>>
    /\ UNCHANGED genvars

\* Actions with a slip: the kind of the current expression is not checked
ActionsUnchecked ==
    /\ Running("Actions")
    /\ heap' = [heap EXCEPT ![current].actions = CurStmt.strs]
    /\ stack' = Advance(stack)
    /\ UNCHANGED <<root, exprRoot, current, Errors, reported, log, pc, walk, result,
                   fresh, stale>>
    /\ UNCHANGED genvars

\* dsl.Actions(actions...)
Actions ==
    /\ Running("Actions")
    /\ IF KindOf(current) = "resource"
       THEN /\ heap' = [heap EXCEPT ![current].actions = CurStmt.strs]
            /\ UNCHANGED <<Errors, reported, log>>
       ELSE /\ IncompatibleDSL
            /\ UNCHANGED heap
    /\ stack' = Advance(stack)
    /\ UNCHANGED <<root, exprRoot, current, pc, walk, result, fresh, stale>>
    /\ UNCHANGED genvars

\* dsl.Route(method, path)
Route ==
    /\ Running("Route")
    /\ IF KindOf(current) = "page"
       THEN /\ heap' = [heap EXCEPT ![current].routes =
                            Append(@, RouteExpr(CurStmt.strs[1], CurStmt.strs[2]))]
            /\ UNCHANGED <<Errors, reported, log>>
       ELSE /\ IncompatibleDSL
            /\ UNCHANGED heap
    /\ stack' = Advance(stack)
    /\ UNCHANGED <<root, exprRoot, current, pc, walk, result, fresh, stale>>
    /\ UNCHANGED genvars

\* dsl.Singular()
Singular ==
    /\ Running("Singular")
    /\ IF KindOf(current) = "resource"
       THEN /\ heap' = [heap EXCEPT ![current].singular = TRUE]
            /\ UNCHANGED <<Errors, reported, log>>
       ELSE /\ IncompatibleDSL
            /\ UNCHANGED heap
    /\ stack' = Advance(stack)
    /\ UNCHANGED <<root, exprRoot, current, pc, walk, result, fresh, stale>>
    /\ UNCHANGED genvars

\* dsl.Index, dsl.Create, dsl.Update (op) for their action: the resource gets an
\* ActionConfig for the action if it has none, and the closure is executed with
\* that ActionConfig as the current expression; the builder returns when Execute
\* does
ConfigureAction(op, action) ==
    /\ Running(op)
    /\ IF KindOf(current) # "resource"
       THEN /\ IncompatibleDSL
            /\ stack' = Advance(stack)
            /\ UNCHANGED <<heap, current>>
       ELSE LET has == action \in DOMAIN heap[current].configs
                id == IF has THEN heap[current].configs[action] ELSE Len(heap) + 1
            IN  /\ heap' = IF has THEN heap
                           ELSE [Append(heap, ActionConfig(action))
                                    EXCEPT ![current].configs = @ @@ (action :> id)]
                /\ IF CurStmt.hasFn
                   THEN ExecuteCall(Advance(stack), id, CurStmt.fn)
                   ELSE /\ stack' = Advance(stack)
                        /\ UNCHANGED <<current, log>>
                /\ UNCHANGED <<Errors, reported>>
    /\ UNCHANGED <<root, exprRoot, pc, walk, result, fresh, stale>>
    /\ UNCHANGED genvars

\* dsl.Index(fn)
Index == ConfigureAction("Index", "index")
\* dsl.Create(fn)
Create == ConfigureAction("Create", "create")
\* dsl.Update(fn)
Update == ConfigureAction("Update", "update")

\* the actions dsl.UseForm binds a form to when it is called in a resource
FormKeys == {"new", "create", "edit", "update"}

\* dsl.UseForm(name)
UseForm ==
    /\ Running("UseForm")
    /\ IF KindOf(current) = "config"
       THEN /\ heap' = [heap EXCEPT ![current].formName = CurStmt.name]
            /\ UNCHANGED <<Errors, reported, log>>
       ELSE IF KindOf(current) = "resource"
       THEN /\ heap' = [heap EXCEPT ![current].customForms =
                            [k \in FormKeys |-> CurStmt.name] @@ @]
            /\ UNCHANGED <<Errors, reported, log>>
       ELSE /\ IncompatibleDSL
            /\ UNCHANGED heap
    /\ stack' = Advance(stack)
    /\ UNCHANGED <<root, exprRoot, current, pc, walk, result, fresh, stale>>
    /\ UNCHANGED genvars

\* dsl.Paginate(perPage)
Paginate ==
    /\ Running("Paginate")
    /\ IF KindOf(current) = "resource"
       THEN /\ heap' = [heap EXCEPT ![current].pagination =
                            ("index" :> CurStmt.items[1]) @@ @]
            /\ UNCHANGED <<Errors, reported, log>>
       ELSE /\ IncompatibleDSL
            /\ UNCHANGED heap
    /\ stack' = Advance(stack)
    /\ UNCHANGED <<root, exprRoot, current, pc, walk, result, fresh, stale>>
    /\ UNCHANGED genvars

\* dsl.Searchable(fields...)
Searchable ==
    /\ Running("Searchable")
    /\ IF KindOf(current) = "resource"
       THEN /\ heap' = [heap EXCEPT ![current].searchable =
                            ("index" :> CurStmt.strs) @@ @]
            /\ UNCHANGED <<Errors, reported, log>>
       ELSE /\ IncompatibleDSL
            /\ UNCHANGED heap
    /\ stack' = Advance(stack)
    /\ UNCHANGED <<root, exprRoot, current, pc, walk, result, fresh, stale>>
    /\ UNCHANGED genvars

\* dsl.Filterable(fields...)
Filterable ==
    /\ Running("Filterable")
    /\ IF KindOf(current) = "resource"
       THEN /\ heap' = [heap EXCEPT ![current].filterable =
                            ("index" :> CurStmt.strs) @@ @]
            /\ UNCHANGED <<Errors, reported, log>>
       ELSE /\ IncompatibleDSL
            /\ UNCHANGED heap
    /\ stack' = Advance(stack)
    /\ UNCHANGED <<root, exprRoot, current, pc, walk, result, fresh, stale>>
    /\ UNCHANGED genvars

\* the Type of the attribute Attribute builds: the last data type among its
\* arguments, "" (nil) when there is none
AttrType(strs) == IF strs = <<>> THEN "" ELSE strs[Len(strs)]

\* dsl.Attribute(name, args...), for arguments that are data types
Attribute ==
    /\ Running("Attribute")
    /\ IF KindOf(current) = "form"
       THEN /\ heap' = [heap EXCEPT ![current].attrs =
                            Append(@, AttributeExpr(CurStmt.name, AttrType(CurStmt.strs)))]
            /\ UNCHANGED <<Errors, reported, log>>
       ELSE /\ IncompatibleDSL
            /\ UNCHANGED heap
    /\ stack' = Advance(stack)
    /\ UNCHANGED <<root, exprRoot, current, pc, walk, result, fresh, stale>>
    /\ UNCHANGED genvars

\* dsl.Type(name, fn), up to the return of Execute
Type ==
    /\ Running("Type")
    /\ LET s == CurStmt
           id == Len(heap) + 1
           form == FormExpr(s.name, s.hasFn, s.fn)
       IN  IF KindOf(current) # "app"
           THEN /\ IncompatibleDSL
                /\ stack' = Advance(stack)
                /\ UNCHANGED <<heap, current>>
           ELSE IF s.hasFn
           THEN /\ heap' = Append(heap, form)
                /\ ExecuteCall(Append(stack, Frame("Type", id, <<>>, 0, Nil, current, <<>>)),
                               id, s.fn)
                /\ UNCHANGED <<Errors, reported>>
           ELSE /\ heap' = [Append(heap, form) EXCEPT ![current].forms = Append(@, id)]
                /\ stack' = Advance(stack)
                /\ UNCHANGED <<Errors, reported, log, current>>
    /\ UNCHANGED <<root, exprRoot, pc, walk, result, fresh, stale>>
    /\ UNCHANGED genvars

\* dsl.Type, from the return of Execute: the form is added to the app
TypeResume ==
    /\ pc \notin {"idle", "done"}
    /\ stack # <<>>
    /\ Top.kind = "Type"
    /\ heap' = [heap EXCEPT ![Top.app].forms = Append(@, Top.node)]
    /\ stack' = Advance(Pop(stack))
    /\ UNCHANGED <<root, exprRoot, current, Errors, pc, walk, result, log, reported,
                   fresh, stale>>
    /\ UNCHANGED genvars

\* dsl.Form(name, fn), up to the return of Execute: the form has no DSLFunc
Form ==
    /\ Running("Form")
    /\ LET s == CurStmt
           id == Len(heap) + 1
           form == FormExpr(s.name, FALSE, <<>>)
       IN  IF KindOf(current) # "resource"
           THEN /\ IncompatibleDSL
                /\ stack' = Advance(stack)
                /\ UNCHANGED <<heap, current>>
           ELSE IF s.hasFn
           THEN /\ heap' = Append(heap, form)
                /\ ExecuteCall(Append(stack, Frame("Form", id, <<>>, 0, Nil, current, <<>>)),
                               id, s.fn)
                /\ UNCHANGED <<Errors, reported>>
           ELSE /\ heap' = [Append(heap, form) EXCEPT ![current].forms = (s.name :> id) @@ @]
                /\ stack' = Advance(stack)
                /\ UNCHANGED <<Errors, reported, log, current>>
    /\ UNCHANGED <<root, exprRoot, pc, walk, result, fresh, stale>>
    /\ UNCHANGED genvars

\* dsl.Form, from the return of Execute: resource.Forms[name] = form
FormResume ==
    /\ pc \notin {"idle", "done"}
    /\ stack # <<>>
    /\ Top.kind = "Form"
    /\ heap' = [heap EXCEPT ![Top.app].forms = (heap[Top.node].name :> Top.node) @@ @]
    /\ stack' = Advance(Pop(stack))
    /\ UNCHANGED <<root, exprRoot, current, Errors, pc, walk, result, log, reported,
                   fresh, stale>>
    /\ UNCHANGED genvars

\* how many of the leading arguments of Page are path strings
RECURSIVE PathPrefix(_)
PathPrefix(items) ==
    IF items = <<>> \/ Head(items).k # "path" THEN 0
    ELSE 1 + PathPrefix(Tail(items))

\* the GET routes Page makes of its first n arguments
PagePaths(items, n) == [i \in 1..n |-> RouteExpr("GET", items[i].path)]

\* the routes the Route calls written in a closure declare
RouteCalls(body) ==
    LET calls == SelectSeq(body, LAMBDA s : s.op = "Route")
    IN  [i \in 1..Len(calls) |-> RouteExpr(calls[i].strs[1], calls[i].strs[2])]

\* history: the routes a Page call declares, in the order of its arguments
RECURSIVE DeclaredRoutes(_)
DeclaredRoutes(items) ==
    IF items = <<>> THEN <<>>
    ELSE (IF Head(items).k = "path"
          THEN << RouteExpr("GET", Head(items).path) >>
          ELSE RouteCalls(Head(items).fn))
         \o DeclaredRoutes(Tail(items))

\* the argument loop of dsl.Page on page id of heap h, for the arguments items,
\* called from the closure on top of stk: path strings become GET routes, a
\* closure is kept as DSLFunc and executed at once; after the last argument the
\* page is added to the app
PageArgs(h, stk, id, app, items) ==
    LET n == PathPrefix(items)
        h1 == [h EXCEPT ![id].routes = @ \o PagePaths(items, n)]
        rest == SubSeq(items, n + 1, Len(items))
    IN  IF rest = <<>>
        THEN /\ heap' = [h1 EXCEPT ![app].pages = Append(@, id)]
             /\ stack' = Advance(stk)
             /\ UNCHANGED <<current, log>>
        ELSE /\ heap' = [h1 EXCEPT ![id].hasDsl = TRUE, ![id].dsl = rest[1].fn]
             /\ ExecuteCall(Append(stk, Frame("Page", id, <<>>, 0, Nil, app, Tail(rest))),
                            id, rest[1].fn)

\* dsl.Page(name, args...), up to the return of the first Execute
Page ==
    /\ Running("Page")
    /\ IF KindOf(current) # "app"
       THEN /\ IncompatibleDSL
            /\ stack' = Advance(stack)
            /\ UNCHANGED <<heap, current>>
       ELSE /\ PageArgs(Append(heap, PageExpr(CurStmt.name, DeclaredRoutes(CurStmt.items))),
                        stack, Len(heap) + 1, current, CurStmt.items)
            /\ UNCHANGED <<Errors, reported>>
    /\ UNCHANGED <<root, exprRoot, pc, walk, result, fresh, stale>>
    /\ UNCHANGED genvars

\* dsl.Page, from the return of an Execute
PageResume ==
    /\ pc \notin {"idle", "done"}
    /\ stack # <<>>
    /\ Top.kind = "Page"
    /\ PageArgs(heap, Pop(stack), Top.node, Top.app, Top.rest)
    /\ UNCHANGED <<root, exprRoot, Errors, pc, walk, result, reported, fresh, stale>>
    /\ UNCHANGED genvars

-----------------------------------------------------------------------------
(* Prepare and Validate of the expressions *)

AllActions == <<"index", "show", "new", "create", "edit", "update", "destroy">>
ValidMethods == {"GET", "POST", "PUT", "PATCH", "DELETE", "HEAD", "OPTIONS"}

Range(seq) == {seq[i] : i \in 1..Len(seq)}

\* AttributeExpr.Prepare
AttributePrepare(a) == IF a.type = "" THEN [a EXCEPT !.type = "string"] ELSE a

\* AttributeExpr.Validate
AttributeValidate(a) ==
    IF a.name = "" THEN Err("attribute name cannot be empty")
    ELSE IF a.type = "" THEN Err("attribute type cannot be nil")
    ELSE NilErr

\* the node n after its Prepare method (AppExpr, ResourceExpr, PageExpr,
\* FormExpr, TestExpression)
Prepare(n) ==
    CASE n.kind = "app" ->
            IF n.assetsPath = "" THEN [n EXCEPT !.assetsPath = "/static"] ELSE n
      [] n.kind = "resource" ->
            IF Len(n.actions) = 0 THEN [n EXCEPT !.actions = AllActions] ELSE n
      [] n.kind = "page" ->
            IF Len(n.routes) = 0 /\ n.name # ""
            THEN [n EXCEPT !.routes = << RouteExpr("GET", "/" \o n.name) >>]
            ELSE n
      [] n.kind = "form" ->
            [n EXCEPT !.attrs = [i \in 1..Len(n.attrs) |-> AttributePrepare(n.attrs[i])]]
      [] n.kind = "config" -> n
      [] n.kind \in {"test", "tree"} -> [n EXCEPT !.prepared = TRUE]

\* the first element of seq at an index in bad, as a one-element sequence: the
\* element at which a validation loop returns
FirstBad(seq, bad) ==
    IF bad = {} THEN <<>>
    ELSE << seq[CHOOSE i \in bad : \A j \in bad : i <= j] >>

\* ResourceExpr.Validate with a slip: nothing is checked
ResourceValidateLax(n) == NilErr

\* ResourceExpr.Validate
ResourceValidate(n) ==
    LET bad == FirstBad(n.actions, {i \in 1..Len(n.actions) : n.actions[i] \notin Range(AllActions)})
    IN  IF n.name = "" THEN Err("resource name cannot be empty")
        ELSE IF bad # <<>> THEN Err("invalid action: " \o bad[1])
        ELSE NilErr

\* PageExpr.Validate with a slip: the routes are not checked
PageValidateNoRoutes(n) ==
    IF n.name = "" THEN Err("page name cannot be empty") ELSE NilErr

\* PageExpr.Validate
PageValidate(n) ==
    LET bad == FirstBad(n.routes, {i \in 1..Len(n.routes) :
                      n.routes[i].method \notin ValidMethods \/ n.routes[i].path = ""})
    IN  IF n.name = "" THEN Err("page name cannot be empty")
        ELSE IF Len(n.routes) = 0 THEN Err("page must have at least one route")
        ELSE IF bad = <<>> THEN NilErr
        ELSE IF bad[1].method \notin ValidMethods
        THEN Err("invalid HTTP method: " \o bad[1].method)
        ELSE Err("route path cannot be empty")

\* FormExpr.Validate
FormValidate(n) ==
    LET bad == FirstBad(n.attrs, {i \in 1..Len(n.attrs) : AttributeValidate(n.attrs[i]) # NilErr})
    IN  IF n.name = "" THEN Err("form name cannot be empty")
        ELSE IF bad # <<>> THEN AttributeValidate(bad[1])
        ELSE NilErr

\* the error the Validate method of node n returns
Validate(n) ==
    CASE n.kind = "app" -> IF n.name = "" THEN Errors ELSE NilErr
      [] n.kind = "resource" -> ResourceValidate(n)
      [] n.kind = "page" -> PageValidate(n)
      [] n.kind = "form" -> FormValidate(n)
      [] n.kind = "config" -> NilErr
      [] n.kind \in {"test", "tree"} -> n.validErr

\* the node n after its Validate method: only TestExpression changes
Validated(n) == IF n.kind \in {"test", "tree"} THEN [n EXCEPT !.validated = TRUE] ELSE n

\* the node n after its Finalize method (TestExpression)
Finalize(n) == [n EXCEPT !.finalized = TRUE]

-----------------------------------------------------------------------------
(* Form names of a resource (expr.ResourceExpr) *)

\* the ASCII characters of bytes 32 (space) to 95 (underscore), and the
\* lower-case letters, bytes 97 to 122
AsciiLow == " !\"#$%&'()*+,-./0123456789:;<=>?@ABCDEFGHIJKLMNOPQRSTUVWXYZ[\\]^_"
AsciiLetters == "abcdefghijklmnopqrstuvwxyz"

\* the one-character string of a byte, and the byte of a one-character string
CharOf(b) ==
    IF b \in 97..122 THEN SubSeq(AsciiLetters, b - 96, b - 96)
    ELSE SubSeq(AsciiLow, b - 31, b - 31)
ByteOf(c) == CHOOSE b \in (32..95) \cup (97..122) : CharOf(b) = c

\* expr.capitalize: string(s[0]-32) + s[1:], in byte arithmetic
capitalize(s) ==
    IF s = "" THEN ""
    ELSE CharOf((ByteOf(SubSeq(s, 1, 1)) + 256 - 32) % 256) \o SubSeq(s, 2, Len(s))

\* whether resource n has an ActionConfig for the action with a form name
HasConfigForm(n, action) ==
    action \in DOMAIN n.configs /\ heap[n.configs[action]].formName # ""

\* ResourceExpr.NewFormName
NewFormName(n) ==
    IF HasConfigForm(n, "create") THEN heap[n.configs["create"]].formName
    ELSE IF HasConfigForm(n, "new") THEN heap[n.configs["new"]].formName
    ELSE IF "new" \in DOMAIN n.customForms THEN n.customForms["new"]
    ELSE IF "create" \in DOMAIN n.customForms THEN n.customForms["create"]
    ELSE "New" \o capitalize(n.name) \o "Form"

\* ResourceExpr.EditFormName
EditFormName(n) ==
    IF HasConfigForm(n, "update") THEN heap[n.configs["update"]].formName
    ELSE IF HasConfigForm(n, "edit") THEN heap[n.configs["edit"]].formName
    ELSE IF "edit" \in DOMAIN n.customForms THEN n.customForms["edit"]
    ELSE IF "update" \in DOMAIN n.customForms THEN n.customForms["update"]
    ELSE "Edit" \o capitalize(n.name) \o "Form"

-----------------------------------------------------------------------------
(* eval.RunDSL *)

\* the expression sets Root.WalkSets walks, in its order: AppExpr.WalkSets walks
\* Resources, Pages, Forms; TestExpression.WalkSets walks nothing
SetList(n) ==
    IF KindOf(root) = "tree" THEN (IF n = 1 THEN heap[root].children ELSE <<>>)
    ELSE IF KindOf(root) # "app" THEN <<>>
    ELSE CASE n = 1 -> heap[root].resources
           [] n = 2 -> heap[root].pages
           [] n = 3 -> heap[root].forms

\* WalkSets moves on to its next element.  A range loop reads its slice when
\* the loop starts: elements appended to it later are not visited.
RECURSIVE WalkNext(_)
WalkNext(w) ==
    IF w.i < Len(w.list) THEN [w EXCEPT !.i = w.i + 1]
    ELSE IF w.set >= 3 THEN [set |-> 4, list |-> <<>>, i |-> 0]
    ELSE WalkNext([set |-> w.set + 1, list |-> SetList(w.set + 1), i |-> 0])

WalkDone(w) == w.set = 4
WalkElem(w) == w.list[w.i]

\* RunDSL with a slip: without a root it returns Context.Errors
RunDSLNoRootError ==
    /\ Idle
    /\ Len(reported) < MaxReports
    /\ IF root = Nil
       THEN /\ result' = Errors
            /\ pc' = "done"
            /\ UNCHANGED <<fresh, stale>>
       ELSE /\ result' = NoResult
            /\ pc' = "p1_root"
            /\ fresh' = IF fresh = "registered" THEN "running" ELSE "none"
            /\ stale' = (fresh = "registered" /\ stale)
    /\ UNCHANGED <<root, exprRoot, current, Errors, heap, stack, walk, log, reported>>
    /\ UNCHANGED genvars

\* RunDSL is called
RunDSL ==
    /\ Idle
    /\ Len(reported) < MaxReports
    /\ IF root = Nil
       THEN /\ result' = Err("no root expression found")
            /\ pc' = "done"
            /\ UNCHANGED <<fresh, stale>>
       ELSE /\ result' = NoResult
            /\ pc' = "p1_root"
            /\ fresh' = IF fresh = "registered" THEN "running" ELSE "none"
            /\ stale' = (fresh = "registered" /\ stale)
    /\ UNCHANGED <<root, exprRoot, current, Errors, heap, stack, walk, log, reported>>
    /\ UNCHANGED genvars

\* phase 1, the root: Execute(root.DSL(), root)
ExecuteRoot ==
    /\ pc = "p1_root"
    /\ pc' = "p1_walk"
    /\ IF IsSource(root) /\ heap[root].hasDsl
       THEN ExecuteCall(stack, root, heap[root].dsl)
       ELSE UNCHANGED <<stack, current, log>>
    /\ UNCHANGED <<root, exprRoot, Errors, heap, walk, result, reported, fresh,
                   stale>>
    /\ UNCHANGED genvars

\* phase 1, root.WalkSets(executeSet): the next expression
ExecuteSet ==
    /\ pc = "p1_walk"
    /\ stack = <<>>
    /\ LET w == WalkNext(walk)
       IN  IF WalkDone(w)
           THEN /\ pc' = "p1_check"
                /\ walk' = NoWalk
                /\ UNCHANGED <<stack, current, log>>
           ELSE /\ walk' = w
                /\ pc' = pc
                /\ IF IsSource(WalkElem(w)) /\ heap[WalkElem(w)].hasDsl
                   THEN ExecuteCall(stack, WalkElem(w), heap[WalkElem(w)].dsl)
                   ELSE UNCHANGED <<stack, current, log>>
    /\ UNCHANGED <<root, exprRoot, Errors, heap, result, reported, fresh, stale>>
    /\ UNCHANGED genvars

\* RunDSL with a slip: the errors of phase 1 are not checked
CheckErrorsIgnored ==
    /\ pc = "p1_check"
    /\ pc' = "p2_root"
    /\ UNCHANGED <<root, exprRoot, current, Errors, heap, stack, walk, result, log,
                   reported, fresh, stale>>
    /\ UNCHANGED genvars

\* the check of Context.Errors after phase 1
CheckErrors ==
    /\ pc = "p1_check"
    /\ IF Errors # NilErr
       THEN pc' = "done" /\ result' = Errors
       ELSE pc' = "p2_root" /\ result' = result
    /\ UNCHANGED <<root, exprRoot, current, Errors, heap, stack, walk, log, reported,
                   fresh, stale>>
    /\ UNCHANGED genvars

\* RunDSL with a slip: phase 2 starts with the walk and skips the root
PrepareRootSkipped ==
    /\ pc = "p2_root"
    /\ pc' = "p2_walk"
    /\ UNCHANGED <<root, exprRoot, current, Errors, heap, stack, walk, result, log,
                   reported, fresh, stale>>
    /\ UNCHANGED genvars

\* phase 2, the root
PrepareRoot ==
    /\ pc = "p2_root"
    /\ pc' = "p2_walk"
    /\ IF IsPreparer(root)
       THEN /\ heap' = [heap EXCEPT ![root] = Prepare(@)]
            /\ log' = Append(log, Ev("prepare", root, NilErr))
       ELSE UNCHANGED <<heap, log>>
    /\ UNCHANGED <<root, exprRoot, current, Errors, stack, walk, result, reported,
                   fresh, stale>>
    /\ UNCHANGED genvars

\* phase 2, root.WalkSets(prepareSet): the next expression
PrepareSet ==
    /\ pc = "p2_walk"
    /\ LET w == WalkNext(walk)
       IN  IF WalkDone(w)
           THEN /\ pc' = "p3_root"
                /\ walk' = NoWalk
                /\ UNCHANGED <<heap, log>>
           ELSE /\ walk' = w
                /\ pc' = pc
                /\ IF IsPreparer(WalkElem(w))
                   THEN /\ heap' = [heap EXCEPT ![WalkElem(w)] = Prepare(@)]
                        /\ log' = Append(log, Ev("prepare", WalkElem(w), NilErr))
                   ELSE UNCHANGED <<heap, log>>
    /\ UNCHANGED <<root, exprRoot, current, Errors, stack, result, reported, fresh,
                   stale>>
    /\ UNCHANGED genvars

\* RunDSL with a slip: the root's error is reported like a child's error and
\* the phase goes on
ValidateRootReports ==
    /\ pc = "p3_root"
    /\ pc' = "p3_walk"
    /\ IF IsValidator(root)
       THEN /\ heap' = [heap EXCEPT ![root] = Validated(@)]
            /\ log' = Append(log, Ev("validate", root, Validate(heap[root])))
            /\ ReportError(Validate(heap[root]))
       ELSE UNCHANGED <<heap, log, Errors, reported>>
    /\ UNCHANGED <<root, exprRoot, current, stack, walk, result, fresh, stale>>
    /\ UNCHANGED genvars

\* phase 3, the root: its error is returned at once
ValidateRoot ==
    /\ pc = "p3_root"
    /\ IF IsValidator(root)
       THEN /\ heap' = [heap EXCEPT ![root] = Validated(@)]
            /\ log' = Append(log, Ev("validate", root, Validate(heap[root])))
            /\ IF Validate(heap[root]) # NilErr
               THEN pc' = "done" /\ result' = Validate(heap[root])
               ELSE pc' = "p3_walk" /\ result' = result
       ELSE /\ pc' = "p3_walk"
            /\ UNCHANGED <<heap, log, result>>
    /\ UNCHANGED <<root, exprRoot, current, Errors, stack, walk, reported, fresh,
                   stale>>
    /\ UNCHANGED genvars

\* validateSet with a slip: the walk ends at the first expression whose Validate
\* returns an error
ValidateSetStops ==
    /\ pc = "p3_walk"
    /\ LET w == WalkNext(walk)
       IN  IF WalkDone(w)
           THEN /\ pc' = "p4_root"
                /\ walk' = NoWalk
                /\ UNCHANGED <<heap, log, Errors, reported>>
           ELSE /\ IF IsValidator(WalkElem(w))
                   THEN /\ heap' = [heap EXCEPT ![WalkElem(w)] = Validated(@)]
                        /\ log' = Append(log, Ev("validate", WalkElem(w),
                                                 Validate(heap[WalkElem(w)])))
                        /\ ReportError(Validate(heap[WalkElem(w)]))
                        /\ IF Validate(heap[WalkElem(w)]) # NilErr
                           THEN pc' = "p4_root" /\ walk' = NoWalk
                           ELSE pc' = pc /\ walk' = w
                   ELSE /\ walk' = w
                        /\ pc' = pc
                        /\ UNCHANGED <<heap, log, Errors, reported>>
    /\ UNCHANGED <<root, exprRoot, current, stack, result, fresh, stale>>
    /\ UNCHANGED genvars

\* phase 3, root.WalkSets(validateSet): the next expression; its error is reported
ValidateSet ==
    /\ pc = "p3_walk"
    /\ LET w == WalkNext(walk)
       IN  IF WalkDone(w)
           THEN /\ pc' = "p4_root"
                /\ walk' = NoWalk
                /\ UNCHANGED <<heap, log, Errors, reported>>
           ELSE /\ walk' = w
                /\ pc' = pc
                /\ IF IsValidator(WalkElem(w))
                   THEN /\ heap' = [heap EXCEPT ![WalkElem(w)] = Validated(@)]
                        /\ log' = Append(log, Ev("validate", WalkElem(w),
                                                 Validate(heap[WalkElem(w)])))
                        /\ ReportError(Validate(heap[WalkElem(w)]))
                   ELSE UNCHANGED <<heap, log, Errors, reported>>
    /\ UNCHANGED <<root, exprRoot, current, stack, result, fresh, stale>>
    /\ UNCHANGED genvars

\* phase 4, the root
FinalizeRoot ==
    /\ pc = "p4_root"
    /\ pc' = "p4_walk"
    /\ IF IsFinalizer(root)
       THEN /\ heap' = [heap EXCEPT ![root] = Finalize(@)]
            /\ log' = Append(log, Ev("finalize", root, NilErr))
       ELSE UNCHANGED <<heap, log>>
    /\ UNCHANGED <<root, exprRoot, current, Errors, stack, walk, result, reported,
                   fresh, stale>>
    /\ UNCHANGED genvars

\* phase 4, root.WalkSets(finalizeSet): the next expression
FinalizeSet ==
    /\ pc = "p4_walk"
    /\ LET w == WalkNext(walk)
       IN  IF WalkDone(w)
           THEN /\ pc' = "p4_ret"
                /\ walk' = NoWalk
                /\ UNCHANGED <<heap, log>>
           ELSE /\ walk' = w
                /\ pc' = pc
                /\ IF IsFinalizer(WalkElem(w))
                   THEN /\ heap' = [heap EXCEPT ![WalkElem(w)] = Finalize(@)]
                        /\ log' = Append(log, Ev("finalize", WalkElem(w), NilErr))
                   ELSE UNCHANGED <<heap, log>>
    /\ UNCHANGED <<root, exprRoot, current, Errors, stack, result, reported, fresh,
                   stale>>
    /\ UNCHANGED genvars

\* RunDSL returns Context.Errors after phase 4
RunDSLReturn ==
    /\ pc = "p4_ret"
    /\ pc' = "done"
    /\ result' = Errors
    /\ UNCHANGED <<root, exprRoot, current, Errors, heap, stack, walk, log, reported,
                   fresh, stale>>
    /\ UNCHANGED genvars

-----------------------------------------------------------------------------

(* codegen.RouterGenerator *)

\* strings.HasSuffix
HasSuffix(s, suffix) ==
    /\ Len(s) >= Len(suffix)
    /\ SubSeq(s, Len(s) - Len(suffix) + 1, Len(s)) = suffix

\* strings.Contains
Contains(s, substr) ==
    \E i \in 1..(Len(s) - Len(substr) + 1) : SubSeq(s, i, i + Len(substr) - 1) = substr

\* RouterGenerator.toSingular
toSingular(plural) ==
    IF HasSuffix(plural, "ies") THEN SubSeq(plural, 1, Len(plural) - 3) \o "y"
    ELSE IF HasSuffix(plural, "es") THEN SubSeq(plural, 1, Len(plural) - 2)
    ELSE IF HasSuffix(plural, "s") THEN SubSeq(plural, 1, Len(plural) - 1)
    ELSE plural

\* RouterGenerator.getRouteForAction: <<method, path>>
getRouteForAction(action, basePath) ==
    CASE action = "index" -> <<"GET", basePath>>
      [] action = "show" -> <<"GET", basePath \o "/{id}">>
      [] action = "new" -> <<"GET", basePath \o "/new">>
      [] action = "create" -> <<"POST", basePath>>
      [] action = "edit" -> <<"GET", basePath \o "/{id}/edit">>
      [] action = "update" -> <<"POST", basePath \o "/{id}">>
      [] action = "destroy" -> <<"POST", basePath \o "/{id}/delete">>
      [] OTHER -> <<"POST", basePath \o "/{id}/" \o action>>

\* one mux.HandleFunc("<method> <path>", handler) line of MountRoutes; node and
\* action name the handler (the controller of the resource or page, the action)
Mount(method, path, node, action) ==
    [method |-> method, path |-> path, node |-> node, action |-> action]

\* the base path RouterGenerator.generateResourceRoutes uses for resource id of h
basePathOf(h, id) ==
    IF h[id].parent # Nil
    THEN "/" \o h[h[id].parent].name \o "/{" \o toSingular(h[h[id].parent].name)
             \o "_id}/" \o h[id].name
    ELSE "/" \o h[id].name

\* RouterGenerator.generateResourceRoutes
generateResourceRoutes(h, id) ==
    [i \in 1..Len(h[id].actions) |->
        LET route == getRouteForAction(h[id].actions[i], basePathOf(h, id))
        IN  Mount(route[1], route[2], id, h[id].actions[i])]

\* RouterGenerator.generatePageRoutes
generatePageRoutes(h, id) ==
    [i \in 1..Len(h[id].routes) |->
        Mount(h[id].routes[i].method, h[id].routes[i].path, id, "")]

\* the loops of RouterGenerator.Generate over app.Resources and app.Pages
RECURSIVE ResourceRoutes(_, _)
ResourceRoutes(h, ids) ==
    IF ids = <<>> THEN <<>>
    ELSE generateResourceRoutes(h, Head(ids)) \o ResourceRoutes(h, Tail(ids))

RECURSIVE PageRoutes(_, _)
PageRoutes(h, ids) ==
    IF ids = <<>> THEN <<>>
    ELSE generatePageRoutes(h, Head(ids)) \o PageRoutes(h, Tail(ids))

\* RouterGenerator.Generate for expr.Root, called as the generated program does:
\* after RunDSL returned nil
RouterGenerate ==
    /\ Returned
    /\ result = NilErr
    /\ KindOf(exprRoot) = "app"
    /\ mounted' = ResourceRoutes(heap, heap[exprRoot].resources)
                     \o PageRoutes(heap, heap[exprRoot].pages)
    /\ UNCHANGED evalvars
    /\ UNCHANGED <<files, generated, emitted, validatorErrors, checked>>

-----------------------------------------------------------------------------

(* codegen.ExampleGenerator and the output directory *)

\* what the output directory holds at the path of a directory
Dir == "<dir>"

\* the directories above path
Parents(path) ==
    {SubSeq(path, 1, i - 1) : i \in {j \in 1..Len(path) : SubSeq(path, j, j) = "/"}}

\* os.MkdirAll(dir) on the directory fs: [err, fs].  It fails, creating
\* nothing, when dir or a directory above it is a regular file.
MkdirAll(fs, dir) ==
    LET chain == Parents(dir) \cup {dir}
    IN  IF \E p \in chain : p \in DOMAIN fs /\ fs[p] # Dir
        THEN [err |-> Err("failed to create directory " \o dir), fs |-> fs]
        ELSE [err |-> NilErr,
              fs |-> [p \in DOMAIN fs \cup chain |-> IF p \in DOMAIN fs THEN fs[p] ELSE Dir]]

\* the loop of os.MkdirAll calls in ExampleGenerator.Generate
RECURSIVE MkdirEach(_, _)
MkdirEach(fs, dirs) ==
    IF dirs = <<>> THEN [err |-> NilErr, fs |-> fs]
    ELSE LET made == MkdirAll(fs, Head(dirs))
         IN  IF made.err # NilErr THEN made ELSE MkdirEach(made.fs, Tail(dirs))

\* codegen.fileExists
fileExists(fs, path) == path \in DOMAIN fs

\* os.WriteFile(path, content) in an existing directory
WriteFile(fs, path, content) ==
    [p \in DOMAIN fs \cup {path} |-> IF p = path THEN content ELSE fs[p]]

\* ExampleGenerator.generateBaseController
generateBaseController(fs) ==
    IF fileExists(fs, "app/controllers/base.go") THEN fs
    ELSE WriteFile(fs, "app/controllers/base.go", "base controller")

\* ExampleGenerator.generateResourceController
generateResourceController(fs, r) ==
    IF fileExists(fs, "app/controllers/" \o r.name \o ".go") THEN fs
    ELSE WriteFile(fs, "app/controllers/" \o r.name \o ".go", "controller of resource " \o r.name)

\* ExampleGenerator.generatePagesController with a slip: the file is written
\* whether it exists or not
generatePagesControllerAlways(fs) ==
    WriteFile(fs, "app/controllers/pages.go", "controller of the pages")

\* ExampleGenerator.generatePagesController
generatePagesController(fs) ==
    IF fileExists(fs, "app/controllers/pages.go") THEN fs
    ELSE WriteFile(fs, "app/controllers/pages.go", "controller of the pages")

\* ExampleGenerator.generateLayout
generateLayout(fs) ==
    IF fileExists(fs, "app/views/layouts/application.html") THEN fs
    ELSE WriteFile(fs, "app/views/layouts/application.html", "layout")

\* ExampleGenerator.generateSharedViews
generateSharedViews(fs) ==
    LET errors == IF ~fileExists(fs, "app/views/shared/_errors.html")
                  THEN WriteFile(fs, "app/views/shared/_errors.html", "errors partial")
                  ELSE fs
    IN  IF ~fileExists(errors, "app/views/shared/_flash.html")
        THEN WriteFile(errors, "app/views/shared/_flash.html", "flash partial")
        ELSE errors

\* ResourceExpr.HasAction
HasAction(r, action) == \E i \in 1..Len(r.actions) : r.actions[i] = action

\* ViewsGenerator.GenerateResourceViews: the names of the views of a resource
GenerateResourceViews(r) ==
    {a \o ".html" : a \in {b \in {"index", "show", "new", "edit"} : HasAction(r, b)}}

\* ExampleGenerator.generateResourceViews; the views are written in any order,
\* each to a path of its own
generateResourceViews(fs, r) ==
    LET path(name) == "app/views/" \o r.name \o "/" \o name
        views == {name \in GenerateResourceViews(r) : ~fileExists(fs, path(name))}
    IN  [p \in DOMAIN fs \cup {path(name) : name \in views} |->
            IF p \in DOMAIN fs THEN fs[p] ELSE "view " \o p]

\* the loops of Generate and generateViews over app.Resources
RECURSIVE ResourceControllers(_, _, _)
ResourceControllers(fs, h, ids) ==
    IF ids = <<>> THEN fs
    ELSE ResourceControllers(generateResourceController(fs, h[Head(ids)]), h, Tail(ids))

RECURSIVE ResourceViews(_, _, _)
ResourceViews(fs, h, ids) ==
    IF ids = <<>> THEN fs
    ELSE ResourceViews(generateResourceViews(fs, h[Head(ids)]), h, Tail(ids))

\* ExampleGenerator.generateViews
generateViews(fs, h, app) ==
    ResourceViews(generateSharedViews(generateLayout(fs)), h, h[app].resources)

\* ExampleGenerator.Generate for the app at node app of h, on the directory fs:
\* [err, fs].  No write fails: each is to a missing path of a directory made above.
Generate(fs, h, app) ==
    LET dirs == <<"app/controllers", "app/views/layouts", "app/views/shared">>
                   \o [i \in 1..Len(h[app].resources) |->
                          "app/views/" \o h[h[app].resources[i]].name]
        made == MkdirEach(fs, dirs)
        controllers == ResourceControllers(generateBaseController(made.fs), h,
                                           h[app].resources)
        pages == IF Len(h[app].pages) > 0 THEN generatePagesController(controllers)
                 ELSE controllers
    IN  IF made.err # NilErr THEN made
        ELSE [err |-> NilErr, fs |-> generateViews(pages, h, app)]

\* the program calls NewExampleGenerator(expr.Root).Generate()
ExampleGenerate ==
    /\ Idle
    /\ KindOf(exprRoot) = "app"
    /\ Len(generated) < MaxRuns
    /\ LET out == Generate(files, heap, exprRoot)
       IN  /\ files' = out.fs
           /\ generated' = Append(generated, out.err)
    /\ UNCHANGED evalvars
    /\ UNCHANGED <<mounted, emitted, validatorErrors, checked>>

\* the paths the user of the generated application writes to: a file where the
\* generator wants a directory, a file of the user's own, and files the
\* generator writes as well
UserPaths ==
    {"app", "app/controllers/marker.txt", "app/controllers/posts.go",
     "app/controllers/pages.go", "app/views/posts/index.html"}

\* the user writes a file, making the directories above it
UserWrite(path) ==
    /\ Idle
    /\ \A p \in Parents(path) : p \in DOMAIN files => files[p] = Dir
    /\ path \in DOMAIN files => files[path] # Dir
    /\ files' = [p \in DOMAIN files \cup Parents(path) \cup {path} |->
                    IF p = path THEN "user"
                    ELSE IF p \in DOMAIN files THEN files[p] ELSE Dir]
    /\ generated' = <<>>
    /\ UNCHANGED evalvars
    /\ UNCHANGED <<mounted, emitted, validatorErrors, checked>>

\* the user removes a file
UserRemove(path) ==
    /\ Idle
    /\ path \in DOMAIN files
    /\ files[path] # Dir
    /\ files' = [p \in DOMAIN files \ {path} |-> files[p]]
    /\ generated' = <<>>
    /\ UNCHANGED evalvars
    /\ UNCHANGED <<mounted, emitted, validatorErrors, checked>>

\* apps as package codegen's tests build them
GenResource(name, actions) ==
    [ResourceExpr(name, FALSE, <<>>, Nil) EXCEPT !.actions = actions]
GenPage(name, path) ==
    [PageExpr(name, <<>>) EXCEPT !.routes = << RouteExpr("GET", path) >>]
GenApp(resources, pages) ==
    [AppExpr("testapp", FALSE, <<>>) EXCEPT !.resources = resources, !.pages = pages]

\* the app of TestExampleGenerator, one whose resource is named as the pages
\* controller's file, and one without pages whose resources are named base
\* and session
GenApps ==
    { << GenApp(<<2>>, <<3>>), GenResource("posts", AllActions), GenPage("home", "/") >>,
      << GenApp(<<2>>, <<3>>), GenResource("pages", <<"index", "show">>),
         GenPage("home", "/") >>,
      << GenApp(<<2, 3>>, <<>>), GenResource("base", <<"index">>),
         GenResource("session", <<"new", "create", "destroy">>) >> }

\* an app is built and registered as expr.Root; the output directory is empty
InitGen ==
    /\ heap \in GenApps
    /\ exprRoot = 1
    /\ root = Nil
    /\ current = Nil
    /\ Errors = NilErr
    /\ stack = <<>>
    /\ pc = "idle"
    /\ walk = NoWalk
    /\ result = NoResult
    /\ log = <<>>
    /\ reported = <<>>
    /\ fresh = "none"
    /\ stale = FALSE
    /\ mounted = <<>>
    /\ files = <<>>
    /\ generated = <<>>
    /\ emitted = <<>>
    /\ validatorErrors = <<>>
    /\ checked = <<>>

NextGen ==
    \/ ExampleGenerate
    \/ \E path \in UserPaths : UserWrite(path)
    \/ \E path \in UserPaths : UserRemove(path)

GenSpec == InitGen /\ [][NextGen]_vars

-----------------------------------------------------------------------------

(* runtime.Validator *)

\* most checks called on one validator
MaxChecks == 2

\* the field checked, and the field it is compared to by Match
Fields == {"email"}
MatchField == "confirm"
\* the values checked: an empty one, a blank one, an address, a URL
Values == {"", " ", "a@b.co", "https://x.io"}
\* the lengths given to MinLength and MaxLength
Lengths == {1, 8}
\* the patterns given to Pattern: lower-case letters, and one that does not compile
LowerPattern == "^[a-z@.]+$"
BadPattern == "("
Patterns == {LowerPattern, BadPattern}

\* runtime.ValidationError
ValidationError(field, message) == [field |-> field, message |-> message]

\* strings.TrimSpace, for values whose white space is spaces
RECURSIVE TrimSpace(_)
TrimSpace(s) ==
    IF s # "" /\ SubSeq(s, 1, 1) = " " THEN TrimSpace(SubSeq(s, 2, Len(s)))
    ELSE IF s # "" /\ SubSeq(s, Len(s), Len(s)) = " "
         THEN TrimSpace(SubSeq(s, 1, Len(s) - 1))
    ELSE s

\* whether mail.ParseAddress(value) returns an error, for values without a
\* display name: the address is local@domain with both parts non-empty and
\* without spaces
ParseAddressFails(value) ==
    ~ /\ \E i \in 2..(Len(value) - 1) :
            /\ SubSeq(value, i, i) = "@"
            /\ \A j \in 1..Len(value) : SubSeq(value, j, j) = "@" => j = i
      /\ ~Contains(value, " ")
      /\ ~Contains(value, ":")

\* whether url.Parse(value) fails or gives an empty Scheme or Host, for values
\* of the form scheme://host
ParseURLFails(value) ==
    ~ \E i \in 2..(Len(value) - 3) :
          /\ SubSeq(value, i, i + 2) = "://"
          /\ ~Contains(SubSeq(value, 1, i - 1), " ")

\* regexp.MatchString(pattern, value): [err, matched]
MatchString(pattern, value) ==
    IF pattern = BadPattern THEN [err |-> Err("missing closing )"), matched |-> FALSE]
    ELSE [err |-> NilErr,
          matched |-> /\ value # ""
                      /\ \A i \in 1..Len(value) :
                            \/ Contains(AsciiLetters, SubSeq(value, i, i))
                            \/ SubSeq(value, i, i) \in {"@", "."}]

\* fmt.Sprintf("%d", n) for the lengths given
Itoa(n) == CASE n = 0 -> "0" [] n = 1 -> "1" [] n = 2 -> "2" [] n = 8 -> "8" [] n = 9 -> "9"

\* v.errors after a check that failed or not: the error is appended when it failed
Appended(failed, field, message) ==
    IF failed THEN Append(validatorErrors, ValidationError(field, message))
    ELSE validatorErrors

\* history: a check was called on value and failed or not; nothing else changes
Checked(name, field, value, failed) ==
    /\ checked' = Append(checked, [check |-> name, field |-> field, value |-> value,
                                   failed |-> failed])
    /\ UNCHANGED evalvars
    /\ UNCHANGED <<mounted, files, generated, emitted>>

\* runtime.NewValidator
NewValidator ==
    /\ validatorErrors' = <<>>
    /\ checked' = <<>>
    /\ UNCHANGED evalvars
    /\ UNCHANGED <<mounted, files, generated, emitted>>

\* Validator.Required
Required(field, value) ==
    /\ Len(checked) < MaxChecks
    /\ validatorErrors' = Appended(TrimSpace(value) = "", field, "is required")
    /\ Checked("Required", field, value, TrimSpace(value) = "")

\* Validator.Email
Email(field, value) ==
    /\ Len(checked) < MaxChecks
    /\ validatorErrors' = Appended(value # "" /\ ParseAddressFails(value), field,
                                   "must be a valid email address")
    /\ Checked("Email", field, value, value # "" /\ ParseAddressFails(value))

\* Validator.URL
URL(field, value) ==
    /\ Len(checked) < MaxChecks
    /\ validatorErrors' = Appended(value # "" /\ ParseURLFails(value), field,
                                   "must be a valid URL")
    /\ Checked("URL", field, value, value # "" /\ ParseURLFails(value))

\* Validator.MinLength
MinLength(field, value, min) ==
    /\ Len(checked) < MaxChecks
    /\ validatorErrors' = Appended(Len(value) < min, field,
                                   "must be at least " \o Itoa(min) \o " characters")
    /\ Checked("MinLength", field, value, Len(value) < min)

\* Validator.MaxLength with a slip: the error is recorded only while no other is
MaxLengthFirstOnly(field, value, max) ==
    /\ Len(checked) < MaxChecks
    /\ validatorErrors' = Appended(Len(value) > max /\ validatorErrors = <<>>, field,
                                   "must be at most " \o Itoa(max) \o " characters")
    /\ Checked("MaxLength", field, value, Len(value) > max)

\* Validator.MaxLength
MaxLength(field, value, max) ==
    /\ Len(checked) < MaxChecks
    /\ validatorErrors' = Appended(Len(value) > max, field,
                                   "must be at most " \o Itoa(max) \o " characters")
    /\ Checked("MaxLength", field, value, Len(value) > max)

\* whether Pattern finds value not to match: the pattern does not compile or
\* the value does not match it
PatternFails(pattern, value) ==
    MatchString(pattern, value).err # NilErr \/ ~MatchString(pattern, value).matched

\* Validator.Pattern
Pattern(field, value, pattern) ==
    /\ Len(checked) < MaxChecks
    /\ validatorErrors' = Appended(value # "" /\ PatternFails(pattern, value), field,
                                   "format is invalid")
    /\ Checked("Pattern", field, value, value # "" /\ PatternFails(pattern, value))

\* Validator.Match
Match(field1, value1, field2, value2) ==
    /\ Len(checked) < MaxChecks
    /\ validatorErrors' = Appended(value1 # value2, field2, "must match " \o field1)
    /\ Checked("Match", field2, value2, value1 # value2)

\* Validator.Errors
ValidatorErrors == validatorErrors

\* Validator.Valid
Valid == Len(validatorErrors) = 0

\* a program validates the fields of a form
NextValidator ==
    \/ NewValidator
    \/ \E field \in Fields, value \in Values : Required(field, value)
    \/ \E field \in Fields, value \in Values : Email(field, value)
    \/ \E field \in Fields, value \in Values : URL(field, value)
    \/ \E field \in Fields, value \in Values, min \in Lengths : MinLength(field, value, min)
    \/ \E field \in Fields, value \in Values, max \in Lengths : MaxLength(field, value, max)
    \/ \E field \in Fields, value \in Values, pattern \in Patterns :
           Pattern(field, value, pattern)
    \/ \E field \in Fields, value1 \in Values, value2 \in {"", "a@b.co"} :
           Match(field, value1, MatchField, value2)

ValidatorSpec == Init /\ [][NextValidator]_vars

-----------------------------------------------------------------------------

Next ==
    \/ \E name \in AppNames, fn \in RootBodies : WebApp(name, TRUE, fn)
    \/ \E name \in AppNames : WebApp(name, FALSE, <<>>)
    \/ \E fn \in TestBodies, e \in TestErrors : SetRoot(TRUE, fn, e)
    \/ Reset
    \/ ExprReset
    \/ \E err \in TopErrors \cup {NilErr} : ReportErrorTop(err)
    \/ RunDSL
    \/ ExecuteRoot
    \/ ExecuteSet
    \/ ExecuteReturn
    \/ Resource
    \/ Actions
    \/ Route
    \/ Attribute
    \/ Type
    \/ TypeResume
    \/ Page
    \/ PageResume
    \/ CheckErrors
    \/ PrepareRoot
    \/ PrepareSet
    \/ ValidateRoot
    \/ ValidateSet
    \/ FinalizeRoot
    \/ FinalizeSet
    \/ RunDSLReturn

Spec == Init /\ [][Next]_vars

\* the program evaluates a design that uses the resource and page builders
-----------------------------------------------------------------------------
(* codegen.TypesGenerator *)

\* a struct declaration "type <name> struct" and the function that wrote it
Decl(name, by) == [name |-> name, by |-> by]

\* the orders in which a range loop may visit the keys of a Go map
Orders(keys) ==
    {o \in [1..Cardinality(keys) -> keys] :
        \A i, j \in 1..Cardinality(keys) : i # j => o[i] # o[j]}

\* AppExpr.Form(name) != nil
AppHasForm(h, app, name) ==
    \E i \in 1..Len(h[app].forms) : h[h[app].forms[i]].name = name

\* the declarations Generate writes for the app-level forms
AppFormDecls(h, app) ==
    [i \in 1..Len(h[app].forms) |-> Decl(h[h[app].forms[i]].name, "generateForm")]

\* the declarations Generate writes for resource r after those of its forms:
\* the default forms, unless a form of the resource or of the app has the name
DefaultDecls(h, app, r) ==
    LET newFormName == NewFormName(h[r])
        editFormName == EditFormName(h[r])
        needsNewForm == /\ newFormName \notin DOMAIN h[r].forms
                        /\ ~AppHasForm(h, app, newFormName)
        needsEditForm == /\ editFormName \notin DOMAIN h[r].forms
                         /\ ~AppHasForm(h, app, editFormName)
    IN  (IF needsNewForm THEN << Decl(newFormName, "generateDefaultNewForm") >> ELSE <<>>)
        \o (IF needsEditForm THEN << Decl(editFormName, "generateDefaultEditForm") >>
            ELSE <<>>)

\* the declarations Generate may write for resource r, one sequence for each
\* order of the loop over resource.Forms
ResourceDecls(h, app, r) ==
    {[i \in 1..Len(o) |-> Decl(h[h[r].forms[o[i]]].name, "generateForm")]
        \o DefaultDecls(h, app, r) : o \in Orders(DOMAIN h[r].forms)}

\* the declarations Generate may write for the resources ids, in order
RECURSIVE ResourcesDecls(_, _, _)
ResourcesDecls(h, app, ids) ==
    IF ids = <<>> THEN { <<>> }
    ELSE {a \o b : a \in ResourceDecls(h, app, ids[1]),
                   b \in ResourcesDecls(h, app, Tail(ids))}

\* TypesGenerator.Generate for the evaluated app: the struct declarations of
\* the forms, in the order they are written
TypesGenerate ==
    /\ Returned
    /\ result = NilErr
    /\ KindOf(exprRoot) = "app"
    /\ \E decls \in ResourcesDecls(heap, exprRoot, heap[exprRoot].resources) :
          emitted' = AppFormDecls(heap, exprRoot) \o decls
    /\ UNCHANGED evalvars
    /\ UNCHANGED <<mounted, files, generated, validatorErrors, checked>>

NextValidation ==
    \/ \E fn \in ValidationDesigns : WebApp("testapp", TRUE, fn)
    \/ \E validErrs \in TreeChildren : SetRootTree(validErrs)
    \/ Reset
    \/ RunDSL
    \/ ExecuteRoot
    \/ ExecuteSet
    \/ ExecuteReturn
    \/ Resource
    \/ Actions
    \/ Form
    \/ FormResume
    \/ UseForm
    \/ Attribute
    \/ Type
    \/ TypeResume
    \/ Page
    \/ PageResume
    \/ CheckErrors
    \/ PrepareRoot
    \/ PrepareSet
    \/ ValidateRoot
    \/ ValidateSet
    \/ FinalizeRoot
    \/ FinalizeSet
    \/ RunDSLReturn
    \/ TypesGenerate

ValidationSpec == Init /\ [][NextValidation]_vars

NextDesign ==
    \/ \E fn \in Designs : WebApp("testapp", TRUE, fn)
    \/ ResourceTop
    \/ Reset
    \/ RunDSL
    \/ ExecuteRoot
    \/ ExecuteSet
    \/ ExecuteReturn
    \/ Resource
    \/ Actions
    \/ Singular
    \/ Index
    \/ Create
    \/ Update
    \/ UseForm
    \/ Paginate
    \/ Searchable
    \/ Filterable
    \/ Route
    \/ Attribute
    \/ Type
    \/ Page
    \/ PageResume
    \/ CheckErrors
    \/ PrepareRoot
    \/ PrepareSet
    \/ ValidateRoot
    \/ ValidateSet
    \/ FinalizeRoot
    \/ FinalizeSet
    \/ RunDSLReturn
    \/ RouterGenerate

DesignSpec == Init /\ [][NextDesign]_vars

-----------------------------------------------------------------------------
(* Properties *)

\* the phase a call belongs to by its kind
EvRank(ev) ==
    CASE ev \in {"exec", "incompat"} -> 1
      [] ev = "prepare" -> 2
      [] ev = "validate" -> 3
      [] ev = "finalize" -> 4

\* RunDSL has called ev on node
Called(ev, node) == \E i \in 1..Len(log) : log[i].ev = ev /\ log[i].node = node

\* no call of a later phase precedes a call of an earlier phase
PhasesOrdered ==
    \A i, j \in 1..Len(log) : i < j => EvRank(log[i].ev) <= EvRank(log[j].ev)

Succeeded == Returned /\ result = NilErr

\* C1 as stated: RunDSL goes through Execute, Prepare, Validate, Finalize in this
\* order, no node's Prepare before the last closure of phase 1, no Validate
\* before the last Prepare, no Finalize before the last Validate; and when it
\* returns nil, Prepare, Validate and Finalize have each been called on the root.
C1_AllThreeOnRoot ==
    /\ PhasesOrdered
    /\ Succeeded =>
          Called("prepare", root) /\ Called("validate", root) /\ Called("finalize", root)

\* C1 as amended: the same order of phases; when RunDSL returns nil, each of
\* Prepare, Validate and Finalize that the root implements has been called on
\* the root (expr.AppExpr has no Finalize method).
C1_FourPhases ==
    /\ PhasesOrdered
    /\ Succeeded =>
          /\ IsPreparer(root) => Called("prepare", root)
          /\ IsValidator(root) => Called("validate", root)
          /\ IsFinalizer(root) => Called("finalize", root)

\* C1 witness: RunDSL returned nil for an app whose children went through the
\* phases after the app itself
C1_Witness ==
    /\ Succeeded
    /\ KindOf(root) = "app"
    /\ \E i \in 1..Len(log) : log[i].ev = "validate" /\ log[i].node # root
    /\ \E i \in 1..Len(log) : log[i].ev = "exec" /\ log[i].node # root

\* where a node comes in the traversal: the root, then the resources, the pages
\* and the forms of the app, each list in its order
KindRank(id) ==
    CASE KindOf(id) = "resource" -> 1
      [] KindOf(id) = "page" -> 2
      [] KindOf(id) = "form" -> 3
      [] OTHER -> 0

ListOf(id) ==
    CASE KindOf(id) = "resource" -> heap[root].resources
      [] KindOf(id) = "page" -> heap[root].pages
      [] KindOf(id) = "form" -> heap[root].forms
      [] OTHER -> <<>>

IndexIn(id) ==
    LET at == {k \in 1..Len(ListOf(id)) : ListOf(id)[k] = id}
    IN  IF at = {} THEN Len(ListOf(id)) + 1 ELSE CHOOSE k \in at : TRUE

NotAfter(a, b) ==
    \/ KindRank(a) < KindRank(b)
    \/ KindRank(a) = KindRank(b) /\ IndexIn(a) <= IndexIn(b)

\* C2: within each phase the root is processed first, then every resource in
\* declaration order, then every page, then every form: of two calls of the
\* same phase, the earlier one is on the node that comes first in this order.
C2_TraversalOrder ==
    root # Nil =>
        \A i, j \in 1..Len(log) :
            (i < j /\ log[i].ev = log[j].ev /\ log[i].ev # "incompat")
                => NotAfter(log[i].node, log[j].node)

\* C3: once a builder function was called in a context it is incompatible with,
\* RunDSL does not go beyond phase 1: it calls Prepare, Validate and Finalize
\* on no node and what it returns is a non-nil error.
C3_IncompatibleStops ==
    (\E i \in 1..Len(log) : log[i].ev = "incompat") =>
        /\ pc \in {"p1_root", "p1_walk", "p1_check", "done"}
        /\ \A i \in 1..Len(log) : log[i].ev \in {"exec", "incompat"}
        /\ Returned => result \notin {NilErr, NoResult}

\* C3 witness: RunDSL has returned after an incompatible call
C3_Witness ==
    /\ Returned
    /\ \E i \in 1..Len(log) : log[i].ev = "incompat"
    /\ result = Errors

\* the attributes the Attribute calls written in a closure declare
AttributeCalls(body) ==
    LET calls == SelectSeq(body, LAMBDA s : s.op = "Attribute")
    IN  [i \in 1..Len(calls) |-> calls[i].name]

\* C4: after a successful RunDSL a form declared with Type(name, fn) has exactly
\* one attribute per Attribute call made in fn, in call order.
C4_OneAttributePerCall ==
    (Succeeded /\ KindOf(root) = "app") =>
        \A k \in 1..Len(heap[root].forms) :
            LET f == heap[heap[root].forms[k]]
            IN  [i \in 1..Len(f.attrs) |-> f.attrs[i].name] = AttributeCalls(f.dsl)

C6_NestedClosureRuns ==
    (pc \notin {"idle", "p1_root", "p1_walk"} /\ KindOf(root) = "app") =>
        \A r \in 1..Len(heap) :
            (heap[r].kind = "resource" /\ heap[r].parent # Nil /\ heap[r].hasDsl)
                => Called("exec", r)

\* the closures that are running, outermost first
DslFrames == SelectSeq(stack, LAMBDA f : f.kind = "dsl")

\* C7: while Execute(dsl, e) runs dsl, Current() is e, the innermost Execute
\* deciding; when an Execute returns Current() is what it was before the call;
\* outside any Execute Current() is nil.
C7_CurrentTracksExecute ==
    /\ DslFrames = <<>> => current = Nil
    /\ DslFrames # <<>> => current = DslFrames[Len(DslFrames)].node
    /\ \A k \in 1..Len(DslFrames) :
          DslFrames[k].old = IF k = 1 THEN Nil ELSE DslFrames[k - 1].node

\* C7 witness: an Execute nested in the root's closure has just returned, and
\* the current expression is the root again
C7_Witness ==
    /\ stack # <<>>
    /\ Top.kind = "Type"
    /\ Len(DslFrames) = 1
    /\ current = root

\* C8: when the root's Validate returns an error, RunDSL returns exactly that
\* error.
C8_RootValidateError ==
    \A i \in 1..Len(log) :
        (log[i].ev = "validate" /\ log[i].node = root /\ log[i].err # NilErr)
            => (Returned /\ result = log[i].err)

\* C8 witness: RunDSL returned the error of the root's Validate
C8_Witness ==
    /\ Returned
    /\ \E i \in 1..Len(log) :
          log[i].ev = "validate" /\ log[i].node = root /\ log[i].err = result
    /\ result = Err("validation failed")

\* C9: Context.Errors is non-nil exactly when a non-nil error was reported
\* since the last Reset, and it holds every reported error, in report order;
\* reporting nil changes nothing.
C9_ErrorsAccumulate ==
    /\ Flatten(Errors) = reported
    /\ Errors = NilErr <=> reported = <<>>

\* C9 witness: three errors were reported, the first and the last differ
C9_Witness ==
    /\ Len(reported) >= 3
    /\ reported[1] # reported[3]
    /\ Errors.kind = "multi"

\* a root whose closure makes only well-formed builder calls in the right
\* context and whose nodes all pass validation
ValidRoot ==
    /\ root # Nil
    /\ heap[root].name # ""
    /\ ValidBody(heap[root].dsl)
    /\ heap[root].validErr = NilErr

\* C10: Context.Reset clears the root, the current expression and the errors;
\* the RunDSL that follows a Reset and the registration of a valid root returns
\* nil, whatever was recorded before the Reset.
C10_ResetClears ==
    /\ fresh = "reset" => (root = Nil /\ current = Nil /\ Errors = NilErr)
    /\ (Returned /\ fresh = "running" /\ ValidRoot) => result = NilErr

\* C10 witness: errors were recorded, then Reset, a valid app with children was
\* registered, and RunDSL returned nil
C10_Witness ==
    /\ Returned
    /\ fresh = "running"
    /\ stale
    /\ ValidRoot
    /\ KindOf(root) = "app"
    /\ Len(heap) > 1
    /\ result = NilErr

-----------------------------------------------------------------------------
(* Builders called in the wrong context *)

\* the kinds of current expression each context-sensitive builder accepts
Accepts ==
    [Resource |-> {"app", "resource"}, Page |-> {"app"}, Type |-> {"app"},
     Attribute |-> {"form"}, Route |-> {"page"}, Actions |-> {"resource"},
     Singular |-> {"resource"}, Form |-> {"resource"}]

\* the running closure is about to call a builder that does not accept the
\* current expression
WrongContext ==
    /\ pc \notin {"idle", "done"}
    /\ stack # <<>>
    /\ Top.kind = "dsl"
    /\ Top.ip <= Len(Top.body)
    /\ CurStmt.op \in DOMAIN Accepts
    /\ KindOf(current) \notin Accepts[CurStmt.op]

\* C11: a context-sensitive builder called while Current() is not a node kind
\* it accepts (in a closure of another kind of node, or by the program outside
\* RunDSL, where there is no current node) records exactly one incompatible-DSL
\* error and leaves every node of the tree as it was, creating none
C11_WrongContextOnlyReports ==
    [][(WrongContext \/ (Idle /\ Len(log') > Len(log)))
         => /\ heap' = heap
            /\ reported' = Append(reported, IncompatibleErr)
            /\ Errors' = recordError(Errors, IncompatibleErr)]_vars

\* C11 witness: RunDSL returned after four builders were called in a resource
\* that accepts none of them, and Resource was called outside RunDSL before
C11_Witness ==
    /\ Returned
    /\ \E i \in 1..Len(log) : log[i].ev = "incompat" /\ log[i].node = Nil
    /\ \E r \in 1..Len(heap) :
          /\ heap[r].kind = "resource"
          /\ Len(SelectSeq(log, LAMBDA e : e.ev = "incompat" /\ e.node = r)) = 4

-----------------------------------------------------------------------------
(* Registration of the app *)

\* C12: WebApp(name, fn) registers the app it returns as expr.Root and as the
\* evaluation root and does not run fn (no closure is entered, no node is
\* created, the current expression stays); fn is entered only inside RunDSL,
\* as the first step of phase 1, with the app as the current expression
C12_WebAppRegistersOnly ==
    [][/\ (root = Nil /\ root' # Nil)
            => /\ exprRoot' = root'
               /\ heap' = << AppExpr(heap'[root'].name, heap'[root'].hasDsl,
                                      heap'[root'].dsl) >>
               /\ stack' = <<>>
               /\ current' = current
               /\ log' = log
       /\ (Len(log') > Len(log) /\ log'[Len(log')].ev = "exec"
              /\ log'[Len(log')].node = root')
            => /\ pc = "p1_root"
               /\ current' = root
               /\ stack'[Len(stack')].node = root
               /\ stack'[Len(stack')].body = heap[root].dsl]_vars

\* C12 witness: RunDSL has just entered the closure given to WebApp, which
\* makes at least one builder call
C12_Witness ==
    /\ pc = "p1_walk"
    /\ Len(stack) = 1
    /\ Top.node = root /\ Top.ip = 1 /\ Len(Top.body) > 0
    /\ current = root
    /\ exprRoot = root
    /\ KindOf(root) = "app"

-----------------------------------------------------------------------------
(* Nested resources *)

\* the Resource calls written directly in a closure
ResourceCalls(body) == SelectSeq(body, LAMBDA st : st.op = "Resource")

\* the actions the last Actions call written directly in a closure sets
\* (none when the closure has no such call)
ActionsSet(body) ==
    LET calls == SelectSeq(body, LAMBDA st : st.op = "Actions")
    IN  IF calls = <<>> THEN <<>> ELSE calls[Len(calls)].strs

\* the nodes whose Parent is resource p, in the order of their creation
NestedOf(p) == SelectSeq([i \in 1..Len(heap) |-> i], LAMBDA r : heap[r].parent = p)

\* how many times node id is in the list
Occurrences(list, id) == Len(SelectSeq(list, LAMBDA x : x = id))

\* C13: after RunDSL on an app that is expr.Root, every Resource call written in
\* the closure of a top-level resource has added exactly one resource, with the
\* name of the call and the enclosing resource as Parent, to the resource list
\* of the app, which lists the parent too; and the parent has the actions its
\* own closure set
C13_NestedResourceListed ==
    (Returned /\ KindOf(root) = "app" /\ exprRoot = root) =>
        \A p \in Range(heap[root].resources) :
            heap[p].parent = Nil =>
                /\ Len(NestedOf(p)) = Len(ResourceCalls(heap[p].dsl))
                /\ \A k \in 1..Len(NestedOf(p)) :
                      /\ heap[NestedOf(p)[k]].kind = "resource"
                      /\ heap[NestedOf(p)[k]].name = ResourceCalls(heap[p].dsl)[k].name
                      /\ Occurrences(heap[root].resources, NestedOf(p)[k]) = 1
                /\ Occurrences(heap[root].resources, p) = 1
                /\ ActionsSet(heap[p].dsl) # <<>> => heap[p].actions = ActionsSet(heap[p].dsl)

\* C13 witness: RunDSL returned nil for an app with a resource that has actions
\* index, show and a nested resource
C13_Witness ==
    /\ Succeeded
    /\ KindOf(root) = "app" /\ exprRoot = root
    /\ \E p \in Range(heap[root].resources), r \in Range(heap[root].resources) :
          /\ heap[r].parent = p
          /\ heap[p].actions = <<"index", "show">>

-----------------------------------------------------------------------------
(* What a successful RunDSL guarantees *)

\* C14: if RunDSL returns nil, every resource in the resource list of the app,
\* top-level or nested, has a non-empty name and a non-empty list of actions,
\* all among index, show, new, create, edit, update, destroy; a resource whose
\* closure specifies no action has these seven, in this order
C14_ResourcesValid ==
    (Succeeded /\ KindOf(root) = "app") =>
        \A r \in Range(heap[root].resources) :
            /\ heap[r].name # ""
            /\ heap[r].actions # <<>>
            /\ Range(heap[r].actions) \subseteq
                   {"index", "show", "new", "create", "edit", "update", "destroy"}
            /\ ActionsSet(heap[r].dsl) = <<>> =>
                   heap[r].actions =
                       <<"index", "show", "new", "create", "edit", "update", "destroy">>

\* C14 witness: RunDSL returned nil for an app with a resource whose closure
\* specifies no action and that Prepare gave the seven actions
C14_Witness ==
    /\ Succeeded
    /\ KindOf(root) = "app"
    /\ \E r \in Range(heap[root].resources) :
          /\ ActionsSet(heap[r].dsl) = <<>>
          /\ Len(heap[r].actions) = 7
          /\ \E i \in 1..Len(log) : log[i].ev = "validate" /\ log[i].node = r

\* C15: if RunDSL returns nil, every page of the app has a non-empty name and at
\* least one route, and every route has a method among GET, POST, PUT, PATCH,
\* DELETE, HEAD, OPTIONS and a non-empty path; a named page declared without
\* any route has had no route until phase 2 and has the single route
\* GET /<name> from then on
C15_PagesValid ==
    /\ (Succeeded /\ KindOf(root) = "app") =>
          \A p \in Range(heap[root].pages) :
              /\ heap[p].name # ""
              /\ heap[p].routes # <<>>
              /\ \A k \in 1..Len(heap[p].routes) :
                    /\ heap[p].routes[k].method \in
                           {"GET", "POST", "PUT", "PATCH", "DELETE", "HEAD", "OPTIONS"}
                    /\ heap[p].routes[k].path # ""
    /\ KindOf(root) = "app" =>
          \A p \in Range(heap[root].pages) :
              (heap[p].name # "" /\ heap[p].declared = <<>>) =>
                  heap[p].routes =
                      IF \E i \in 1..Len(log) : log[i].ev = "prepare" /\ log[i].node = p
                      THEN << RouteExpr("GET", "/" \o heap[p].name) >>
                      ELSE <<>>

\* C15 witness: RunDSL returned nil for an app with a page declared without
\* route
C15_Witness ==
    /\ Succeeded
    /\ KindOf(root) = "app"
    /\ \E p \in Range(heap[root].pages) :
          heap[p].declared = <<>> /\ heap[p].routes = << RouteExpr("GET", "/about") >>

-----------------------------------------------------------------------------
(* Form-name resolution *)

\* the form names the UseForm calls written directly in a closure give
UseFormCalls(body) ==
    LET calls == SelectSeq(body, LAMBDA st : st.op = "UseForm")
    IN  [i \in 1..Len(calls) |-> calls[i].name]

\* the form names bound with UseForm inside the closures of the calls of op
\* (Create, Update) written in a closure, in the order of the calls
RECURSIVE BoundIn(_, _)
BoundIn(body, op) ==
    IF body = <<>> THEN <<>>
    ELSE (IF Head(body).op = op /\ Head(body).hasFn
          THEN UseFormCalls(Head(body).fn) ELSE <<>>)
         \o BoundIn(Tail(body), op)

\* a name with its first letter capitalized: a lower-case first letter becomes
\* the upper-case one, any other first character stays
Capitalized(s) ==
    IF s = "" THEN ""
    ELSE IF ByteOf(SubSeq(s, 1, 1)) \in 97..122
    THEN CharOf(ByteOf(SubSeq(s, 1, 1)) - 32) \o SubSeq(s, 2, Len(s))
    ELSE s

\* the top-level resources of the app after RunDSL: their closures have run
EvaluatedResources ==
    IF Returned /\ KindOf(root) = "app"
    THEN {r \in Range(heap[root].resources) : heap[r].parent = Nil}
    ELSE {}

\* C16: NewFormName returns the form bound with UseForm inside the resource's
\* Create closure and EditFormName the form bound with UseForm inside its
\* Update closure, each whatever the other closure binds; a resource that binds
\* no form gets New<Name>Form and Edit<Name>Form, <Name> being the resource
\* name with its first letter capitalized
C16_FormNames ==
    \A r \in EvaluatedResources :
        LET created == BoundIn(heap[r].dsl, "Create")
            updated == BoundIn(heap[r].dsl, "Update")
            legacy == UseFormCalls(heap[r].dsl)
        IN  /\ created # <<>> => NewFormName(heap[r]) = created[Len(created)]
            /\ updated # <<>> => EditFormName(heap[r]) = updated[Len(updated)]
            /\ (created = <<>> /\ legacy = <<>>) =>
                   NewFormName(heap[r]) = "New" \o Capitalized(heap[r].name) \o "Form"
            /\ (updated = <<>> /\ legacy = <<>>) =>
                   EditFormName(heap[r]) = "Edit" \o Capitalized(heap[r].name) \o "Form"

\* C16 for the resources whose name starts with a lower-case letter, the part of
\* it the code keeps
C16_LowerCaseNames ==
    \A r \in EvaluatedResources :
        (heap[r].name # "" /\ ByteOf(SubSeq(heap[r].name, 1, 1)) \in 97..122) =>
        LET created == BoundIn(heap[r].dsl, "Create")
            updated == BoundIn(heap[r].dsl, "Update")
            legacy == UseFormCalls(heap[r].dsl)
        IN  /\ created # <<>> => NewFormName(heap[r]) = created[Len(created)]
            /\ updated # <<>> => EditFormName(heap[r]) = updated[Len(updated)]
            /\ (created = <<>> /\ legacy = <<>>) =>
                   NewFormName(heap[r]) = "New" \o Capitalized(heap[r].name) \o "Form"
            /\ (updated = <<>> /\ legacy = <<>>) =>
                   EditFormName(heap[r]) = "Edit" \o Capitalized(heap[r].name) \o "Form"

-----------------------------------------------------------------------------
(* Configuration of the index action *)

\* the page sizes the Paginate calls inside the Index closures written in a
\* closure give, in the order of the calls
RECURSIVE PaginatedIn(_)
PaginatedIn(body) ==
    IF body = <<>> THEN <<>>
    ELSE (IF Head(body).op = "Index" /\ Head(body).hasFn
          THEN LET calls == SelectSeq(Head(body).fn, LAMBDA st : st.op = "Paginate")
               IN  [i \in 1..Len(calls) |-> calls[i].items[1]]
          ELSE <<>>)
         \o PaginatedIn(Tail(body))

\* C17: Paginate, Searchable and Filterable may be called inside an Index
\* closure: no call made with an ActionConfig as the current expression records
\* an incompatible-DSL error, and a resource whose closure has
\* Index(func() { Paginate(n) }) has index pagination n
C17_PaginateInIndex ==
    /\ \A i \in 1..Len(log) : log[i].ev = "incompat" => KindOf(log[i].node) # "config"
    /\ \A r \in EvaluatedResources :
          LET sizes == PaginatedIn(heap[r].dsl)
          IN  sizes # <<>> =>
                  /\ "index" \in DOMAIN heap[r].pagination
                  /\ heap[r].pagination["index"] = sizes[Len(sizes)]

-----------------------------------------------------------------------------
(* Routes of the generated router *)

\* the route the documentation of Resource gives for a RESTful action of a
\* resource mounted at base: <<method, path>>
RestfulRoute(action, base) ==
    CASE action = "index" -> <<"GET", base>>
      [] action = "new" -> <<"GET", base \o "/new">>
      [] action = "create" -> <<"POST", base>>
      [] action = "show" -> <<"GET", base \o "/{id}">>
      [] action = "edit" -> <<"GET", base \o "/{id}/edit">>
      [] action = "update" -> <<"PUT", base \o "/{id}">>
      [] action = "destroy" -> <<"DELETE", base \o "/{id}">>

\* the routes of the router written last for the RESTful actions of the
\* top-level resources whose Singular field is as given
RoutesOf(singular) ==
    {i \in 1..Len(mounted) :
        /\ KindOf(mounted[i].node) = "resource"
        /\ heap[mounted[i].node].parent = Nil
        /\ heap[mounted[i].node].singular = singular
        /\ mounted[i].action \in Range(AllActions)}

\* C18: for a standard resource with base path /<name>, the generated route
\* table maps the seven actions to GET /<name> (index), GET /<name>/new (new),
\* POST /<name> (create), GET /<name>/{id} (show), GET /<name>/{id}/edit (edit),
\* PUT /<name>/{id} (update) and DELETE /<name>/{id} (destroy)
C18_RestfulRouteTable ==
    \A i \in RoutesOf(FALSE) :
        <<mounted[i].method, mounted[i].path>>
            = RestfulRoute(mounted[i].action, "/" \o heap[mounted[i].node].name)

\* C19: for a resource marked Singular(), the generated routes carry no {id}
\* segment: new is GET /<name>/new, create is POST /<name> and destroy is
\* DELETE /<name>
C19_SingularRoutes ==
    \A i \in RoutesOf(TRUE) :
        LET m == mounted[i]
            base == "/" \o heap[m.node].name
        IN  /\ ~Contains(m.path, "{id}")
            /\ m.action = "new" => (m.method = "GET" /\ m.path = base \o "/new")
            /\ m.action = "create" => (m.method = "POST" /\ m.path = base)
            /\ m.action = "destroy" => (m.method = "DELETE" /\ m.path = base)

-----------------------------------------------------------------------------
(* Files of the example generator *)

\* the files TestExampleGenerator expects for the app at node app of h: the base
\* controller, a controller per resource, the pages controller when the app has
\* pages, the layout, the shared partials and a view per resource and action
\* that has one
ExpectedFiles(h, app) ==
    {"app/controllers/base.go", "app/views/layouts/application.html",
     "app/views/shared/_errors.html", "app/views/shared/_flash.html"}
    \cup {"app/controllers/" \o h[id].name \o ".go" : id \in Range(h[app].resources)}
    \cup (IF h[app].pages # <<>> THEN {"app/controllers/pages.go"} ELSE {})
    \cup UNION {{"app/views/" \o h[id].name \o "/" \o a \o ".html" :
                    a \in Range(h[id].actions) \cap {"index", "show", "new", "edit"}} :
                id \in Range(h[app].resources)}

\* C20: ExampleGenerator.Generate only creates files that do not exist yet: it
\* never modifies or deletes an existing file (a file it did not generate
\* included), when it returns nil every expected file exists afterwards, and a
\* run that follows a successful run changes nothing
C20_OnlyCreatesMissingFiles ==
    [][ExampleGenerate =>
         /\ \A p \in DOMAIN files : p \in DOMAIN files' /\ files'[p] = files[p]
         /\ generated'[Len(generated')] = NilErr =>
               \A p \in ExpectedFiles(heap, exprRoot) :
                   p \in DOMAIN files' /\ files'[p] # Dir
         /\ (generated # <<>> /\ generated[Len(generated)] = NilErr) =>
               files' = files]_vars

\* C20 witness: Generate ran twice and returned nil on a directory in which the
\* user had written a controller: the user's file is there, and so are files
\* Generate created
C20_Witness ==
    /\ generated = <<NilErr, NilErr>>
    /\ "app/controllers/posts.go" \in DOMAIN files
    /\ files["app/controllers/posts.go"] = "user"
    /\ "app/views/posts/index.html" \in DOMAIN files
    /\ files["app/views/posts/index.html"] = "view app/views/posts/index.html"

-----------------------------------------------------------------------------
(* RunDSL without a root *)

\* C22: RunDSL with no root set returns the error 'no root expression found'
\* without executing any closure or calling Prepare, Validate or Finalize, and
\* leaves the evaluation context unchanged
C22_NoRootReturnsError ==
    [][(Idle /\ root = Nil /\ pc' # "idle")
         => /\ pc' = "done"
            /\ result' = Err("no root expression found")
            /\ log = <<>> /\ log' = <<>>
            /\ UNCHANGED <<root, current, Errors, heap, exprRoot, reported>>]_vars

\* C22 witness: RunDSL returned the error for a missing root while errors were
\* recorded in the context, which still holds them
C22_Witness ==
    /\ Returned
    /\ root = Nil
    /\ result = Err("no root expression found")
    /\ Errors # NilErr
    /\ log = <<>>

-----------------------------------------------------------------------------
(* Errors of a runtime.Validator *)

\* the checks that failed since NewValidator, in call order
Failures == SelectSeq(checked, LAMBDA c : c.failed)

\* the check whose message an error of the validator carries
CheckOf(e) ==
    CASE e.message = "is required" -> "Required"
      [] e.message = "must be a valid email address" -> "Email"
      [] e.message = "must be a valid URL" -> "URL"
      [] e.message = "format is invalid" -> "Pattern"
      [] SubSeq(e.message, 1, 16) = "must be at least" -> "MinLength"
      [] SubSeq(e.message, 1, 15) = "must be at most" -> "MaxLength"
      [] SubSeq(e.message, 1, 10) = "must match" -> "Match"

\* C21: a runtime.Validator accumulates failures without short-circuiting:
\* each check appends at most one error and never removes one, Errors() lists
\* the failures in call order, and Valid() is true exactly when no check has
\* failed since NewValidator
C21_ValidatorAccumulates ==
    /\ [](/\ Len(ValidatorErrors) = Len(Failures)
          /\ \A i \in 1..Len(Failures) :
                /\ ValidatorErrors[i].field = Failures[i].field
                /\ CheckOf(ValidatorErrors[i]) = Failures[i].check
          /\ Valid <=> Failures = <<>>)
    /\ [][Len(checked') > Len(checked)
            => /\ Len(validatorErrors') \in {Len(validatorErrors), Len(validatorErrors) + 1}
               /\ SubSeq(validatorErrors', 1, Len(validatorErrors)) = validatorErrors]_vars

\* C21 witness: a check failed after another check had failed, and the
\* validator holds the error of each
C21_Witness ==
    /\ Len(checked) >= 2
    /\ checked[1].failed /\ checked[2].failed
    /\ checked[1].check # checked[2].check
    /\ Len(validatorErrors) = 2
    /\ ~Valid

\* C29: only Required rejects an empty value: for value == "" the checks Email,
\* URL, Pattern, MinLength and MaxLength record no error, so an optional field
\* that is left empty passes validation
C29_EmptyValuePasses ==
    \A i \in 1..Len(checked) :
        (checked[i].value = ""
            /\ checked[i].check \in {"Email", "URL", "Pattern", "MinLength", "MaxLength"})
        => ~checked[i].failed

-----------------------------------------------------------------------------
(* Validation of the app *)

\* C27: an app whose name is empty fails validation: RunDSL on a root AppExpr
\* with Name == "" (and an otherwise valid tree) returns a non-nil error
C27_EmptyAppNameFails ==
    (Returned /\ KindOf(root) = "app" /\ heap[root].name = "") => result # NilErr

-----------------------------------------------------------------------------
(* Validation of the children of the root *)

\* the expressions root.WalkSets hands to the walker, in order
WalkedNodes == SetList(1) \o SetList(2) \o SetList(3)

\* the errors the Validate methods of the children returned, in call order
ChildFailures ==
    LET failed == SelectSeq(log, LAMBDA e : e.ev = "validate" /\ e.node # root
                                            /\ e.err # NilErr)
    IN  [i \in 1..Len(failed) |-> failed[i].err]

\* the Validate method of the root returned nil, so phase 3 walked the children
RootValidated ==
    \E i \in 1..Len(log) : log[i].ev = "validate" /\ log[i].node = root
                            /\ log[i].err = NilErr

\* C23: in phase 3 a child's validation error does not stop the walk: once the
\* walk is over Validate has been called on every child that has one, and the
\* error RunDSL returns is made of the failures of all failing children
C23_ValidationContinues ==
    (RootValidated /\ (Phase = 4 \/ Returned))
        => /\ \A i \in 1..Len(WalkedNodes) :
                 IsValidator(WalkedNodes[i]) => Called("validate", WalkedNodes[i])
           /\ Returned => Flatten(result) = ChildFailures

\* C23 witness: RunDSL returned after two children failed validation and a
\* child between them passed it
C23_Witness ==
    /\ Returned
    /\ Len(ChildFailures) >= 2
    /\ \E i, j, k \in 1..Len(log) :
          /\ i < j /\ j < k
          /\ log[i].ev = "validate" /\ log[i].node # root /\ log[i].err # NilErr
          /\ log[j].ev = "validate" /\ log[j].err = NilErr
          /\ log[k].ev = "validate" /\ log[k].node # root /\ log[k].err # NilErr

\* the attributes of the form n that AttributeExpr.Validate rejects
InvalidAttributes(n) ==
    {k \in 1..Len(n.attrs) : AttributeValidate(n.attrs[k]) # NilErr}

\* C24: FormExpr.Validate validates all the attributes of a named form and its
\* error reports every invalid one
C24_EveryInvalidAttributeReported ==
    \A i \in 1..Len(log) :
        (log[i].ev = "validate" /\ KindOf(log[i].node) = "form"
           /\ heap[log[i].node].name # "")
            => Len(Flatten(log[i].err)) = Cardinality(InvalidAttributes(heap[log[i].node]))

\* C25: the validation failures of phase 3 end the run: when a Validate method
\* has returned an error, RunDSL calls Finalize on no node
C25_NoFinalizeAfterFailure ==
    (\E i \in 1..Len(log) : log[i].ev = "validate" /\ log[i].err # NilErr)
        => \A j \in 1..Len(log) : log[j].ev # "finalize"

\* the forms of the design: those of the app and those of every resource
DeclaredForms ==
    UNION {{heap[id].forms[k] : k \in DOMAIN heap[id].forms} :
             id \in {n \in 1..Len(heap) : KindOf(n) \in {"app", "resource"}}}

\* C26: phases 2 and 3 reach every form, declared with Type in the app or with
\* Form in a resource, and its attributes: after RunDSL returned nil every
\* declared attribute has a name and a type
C26_EveryAttributeChecked ==
    Succeeded =>
        \A f \in DeclaredForms : \A k \in 1..Len(heap[f].attrs) :
            heap[f].attrs[k].name # "" /\ heap[f].attrs[k].type # ""

\* C28: the types file declares each form type name at most once: of the struct
\* declarations written for the forms of the app, the forms of the resources
\* and the default New and Edit forms of the resources, no two share a name
C28_TypeNamesDeclaredOnce ==
    \A i, j \in 1..Len(emitted) : i # j => emitted[i].name # emitted[j].name

====
